---------------------------- MODULE Spec2Model ----------------------------
(***************************************************************************)
(* Model of the phase-space analysis helpers of BLonD                      *)
(* (src/trackers/utilities.py): the potential-well extractor               *)
(* (minmax_location, potential_well_cut) and the phase/time normalisation  *)
(* helpers (phase_modulo_above_transition, phase_modulo_below_transition,  *)
(* time_modulo).                                                           *)
(*                                                                         *)
(* Arithmetic of the potential-well part.  The sampled functions are       *)
(* integer valued on a uniform time grid with an even integer step h, so   *)
(* every value the code computes is a multiple of 1/h (first derivative,   *)
(* interpolated extremum values) or of 1/h^2 (second derivative) and the   *)
(* float64 operations of the code are exact on them.  The model carries    *)
(* these values as their integer numerators; the comment of each operator  *)
(* states the denominator.                                                 *)
(*                                                                         *)
(* Arithmetic of the normalisation helpers.  Their claims are about the    *)
(* edges of half-open intervals, where the rounding of float64 decides     *)
(* the result.  The model computes them in a binary floating-point format  *)
(* of the same kind (round to nearest, ties to even, gradual underflow)    *)
(* with MantBits significant bits, every value being an integer number of  *)
(* quanta of 2^-FracBits.                                                  *)
(***************************************************************************)
EXTENDS Integers, Sequences, FiniteSets, TLC

VARIABLES
    \* ---- potential-well extractor ----
    time_potential,      \* argument x / time_potential: the time grid
    potential_array,     \* argument f / potential_array: the sampled values
    called,              \* which function the caller invoked ("none" before)
    raised,              \* exception that left the call ("none": it returned)
    printed,             \* TRUE when the call printed its warning
    min_time_positions,  \* minmax_positions[0]
    max_time_positions,  \* minmax_positions[1]
    min_values,          \* minmax_values[0]   (numerators over h)
    max_potential_values,\* minmax_values[1]   (numerators over h)
    saved_indexes,       \* the boolean mask, as the set of indices it keeps
    time_potential_sep,  \* first returned array
    potential_well_sep,  \* second returned array
    \* ---- phase/time normalisation ----
    mod_fn,              \* the helper the caller uses ("none": no caller)
    mod_args,            \* its arguments: <<dt, dt_offset, T>> or <<phi>>
    mod_out,             \* the values returned so far, in call order
    \* ---- RF formulas ----
    general_params,      \* argument GeneralParameters
    rf_section,          \* argument RFSectionParameters
    beam,                \* argument Beam
    rf_fn,               \* the function the caller uses ("none": no caller)
    rf_args,             \* its other arguments
    rf_done,             \* TRUE once the call has been made
    rf_result,           \* the outcome of the call
    \* ---- synchrotron frequency distribution ----
    sfd_time,            \* time_coord_sep, the times of the cut well
    sfd_well,            \* potential_well_sep, the cut well
    sfd_smooth,          \* argument smoothOption
    sfd_done,            \* TRUE once the call has been made
    sfd_result,          \* the outcome of the call
    sfd_ring_well,       \* the potential well stored on FullRingAndRF
    \* ---- synchrotron frequency tracker ----
    trk_args,            \* the arguments of the constructor
    trk_state,           \* "new", "built", "failed" or "analysed"
    tracker,             \* the synchrotron_frequency_tracker object
    trk_raised,          \* the exception of its last method ("none": none)
    trk_history,         \* the ensemble after construction and each turn
    trk_heap,            \* the collaborators: the caller's FullRingAndRF
                         \* ("ring") and TotalInducedVoltage ("induced"),
                         \* and the objects made from them
    \* ---- moving average ----
    ma_signal,           \* the signal of the benchmark loop
    ma_n,                \* the window n_ma
    ma_prev,             \* prev, the value given as x_prev
    ma_time,             \* the number of points of the time axis
    ma_last,             \* the arguments of the latest call
    ma_iterations,       \* the number of iterations made
    \* ---- combine_rf_functions ----
    cmb_args,            \* the arguments of the call
    cmb_done,            \* TRUE once the call has been made
    cmb_result,          \* the outcome of the call
    \* ---- PreprocessRFParams.preprocess ----
    pre_args,            \* the object and the arguments of the call
    pre_done,            \* TRUE once the call has been made
    pre_result,          \* the outcome of the call
    \* ---- _FrequencyOffset ----
    fo_args,             \* the Ring, the RFStation as it was, and the program
    fo_self,             \* the attributes of the _FrequencyOffset object
    fo_station,          \* the RFStation the object holds
    fo_pc,               \* the last method called ("new": none yet)
    fo_raised,           \* the exception of that method ("none": none)
    \* ---- the process ----
    warnings_filters     \* warnings.filters: the actions of the filters
                         \* installed, the latest first

well_vars == <<time_potential, potential_array, called, raised, printed,
               min_time_positions, max_time_positions, min_values,
               max_potential_values, saved_indexes, time_potential_sep,
               potential_well_sep>>

mod_vars == <<mod_fn, mod_args, mod_out>>

rf_vars == <<general_params, rf_section, beam, rf_fn, rf_args, rf_done,
             rf_result>>

sfd_vars == <<sfd_time, sfd_well, sfd_smooth, sfd_done, sfd_result,
              sfd_ring_well>>

trk_vars == <<trk_args, trk_state, tracker, trk_raised, trk_history,
              trk_heap>>

ma_vars == <<ma_signal, ma_n, ma_prev, ma_time, ma_last, ma_iterations>>

cmb_vars == <<cmb_args, cmb_done, cmb_result>>

pre_vars == <<pre_args, pre_done, pre_result>>

fo_vars == <<fo_args, fo_self, fo_station, fo_pc, fo_raised>>

vars == <<well_vars, mod_vars, rf_vars, sfd_vars, trk_vars, ma_vars,
          cmb_vars, pre_vars, fo_vars, warnings_filters>>

\* what the callers of one component leave alone
not_well_vars == <<mod_vars, rf_vars, sfd_vars, trk_vars, ma_vars,
                   cmb_vars, pre_vars, fo_vars>>

not_mod_vars == <<well_vars, rf_vars, sfd_vars, trk_vars, ma_vars,
                  cmb_vars, pre_vars, fo_vars, warnings_filters>>

not_rf_vars == <<well_vars, mod_vars, sfd_vars, trk_vars, ma_vars,
                 cmb_vars, pre_vars, fo_vars>>

not_sfd_vars == <<well_vars, mod_vars, rf_vars, trk_vars, ma_vars,
                  cmb_vars, pre_vars, fo_vars>>

not_ma_vars == <<well_vars, mod_vars, rf_vars, sfd_vars, trk_vars,
                 cmb_vars, pre_vars, fo_vars, warnings_filters>>

not_trk_vars == <<well_vars, mod_vars, rf_vars, sfd_vars, ma_vars,
                  cmb_vars, pre_vars, fo_vars, warnings_filters>>

not_cmb_vars == <<well_vars, mod_vars, rf_vars, sfd_vars, trk_vars,
                  ma_vars, pre_vars, fo_vars, warnings_filters>>

not_pre_vars == <<well_vars, mod_vars, rf_vars, sfd_vars, trk_vars,
                  ma_vars, cmb_vars, fo_vars, warnings_filters>>

not_fo_vars == <<well_vars, mod_vars, rf_vars, sfd_vars, trk_vars, ma_vars,
                 cmb_vars, pre_vars, warnings_filters>>

---------------------------------------------------------------------------
(* Bounds of the model.                                                    *)

\* longest sampled function
MaxLen == 7
\* the samples take the values 0..MaxVal
MaxVal == 2
\* significant bits of the floating-point format of the normalisation helpers
MantBits == 3
\* the quantum of that format is 2^-FracBits
FracBits == 4
\* the helpers' arguments lie in [-MaxArg, MaxArg]
MaxArg == 4
\* the requested times of the RF formulas are -MaxDt..MaxDt ticks
MaxDt == 3
\* the energy offsets of the RF formulas are -MaxDE..MaxDE
MaxDE == 1
\* steps of the uniform time grids (even, so that h/2 is an integer)
TimeSteps == {2}
\* first time of the grids
TimeStarts == {-3}

---------------------------------------------------------------------------
(* numpy helpers used by minmax_location and potential_well_cut.           *)

\* np.diff(s)
Diff(s) == [i \in 1..(Len(s) - 1) |-> s[i + 1] - s[i]]

\* the elements of a set S of indices of 1..n in ascending order
\* (np.unique and boolean-mask indexing both keep the index order)
SortedSeq(S, n) == SelectSeq([i \in 1..n |-> i], LAMBDA i : i \in S)

\* s[idx] for a sequence idx of (1-based) indices: numpy fancy indexing
Take(s, idx) == [k \in 1..Len(idx) |-> s[idx[k]]]

\* Step of a uniform grid xp
Step(xp) == xp[2] - xp[1]

\* np.interp(xq, xp, fp) for one abscissa xq, times Step(xp): clamped to
\* fp[0] left of xp[0] and to fp[-1] right of xp[-1], linear in between.
InterpOne(xq, xp, fp) ==
    LET n == Len(xp)
        h == Step(xp)
    IN  IF xq <= xp[1] THEN h * fp[1]
        ELSE IF xq >= xp[n] THEN h * fp[n]
        ELSE LET j == CHOOSE k \in 1..(n - 1) : xp[k] <= xq /\ xq < xp[k + 1]
             IN  h * fp[j] + (fp[j + 1] - fp[j]) * (xq - xp[j])

\* np.interp(x, xp, fp) for an array x of abscissae, times Step(xp)
Interp(x, xp, fp) == [i \in 1..Len(x) |-> InterpOne(x[i], xp, fp)]

\* a / b < 0 in float64: -inf < 0 holds, +inf < 0 and nan < 0 do not
RatioNegative(a, b) ==
    IF b = 0 THEN a < 0 ELSE (a < 0 /\ b > 0) \/ (a > 0 /\ b < 0)

---------------------------------------------------------------------------
(* The process-wide warnings filter.                                       *)

\* warnings.filterwarnings(action): the filter is put in front of the list,
\* an equal filter already in the list being removed
filterwarnings(filters, action) ==
    <<action>> \o SelectSeq(filters, LAMBDA a : a # action)

\* the filters after minmax_location: "ignore" is installed on line 571
\* and "default" on line 580, which a call that raises in between does
\* not reach
minmax_location_filters(filters, exc) ==
    IF exc = "none"
    THEN filterwarnings(filterwarnings(filters, "ignore"), "default")
    ELSE filterwarnings(filters, "ignore")

\* the filters a caller may have installed before a call
InitialFilters == {<<>>, <<"error">>}

---------------------------------------------------------------------------
(* minmax_location(x, f): the record of what the call produced.            *)
(* raised = "IndexError" when x[... + 1] indexes past the end of x.        *)
(* Indices are 1-based here: the code's index z is z + 1 in the model.     *)

minmax_location(x, f) ==
    LET n == Len(x)
        \* x[0:-1] + (x[1]-x[0])/2
        x_derivative == [i \in 1..(n - 1) |-> x[i] + (x[2] - x[1]) \div 2]
        \* np.unique(np.append(np.where(f_derivative == 0),
        \*     np.where(f_derivative[1:]/f_derivative[0:-1] < 0)))
        Zeros(f_derivative) ==
            SortedSeq({i \in 1..n : f_derivative[i] = 0}
                \cup {j \in 1..(n - 1) :
                        RatioNegative(f_derivative[j + 1], f_derivative[j])},
                      n)
        \* lines 574-582, given the indices selected as minima and as maxima
        Locate(min_zeros, max_zeros) ==
            LET \* x[... + 1] with an index equal to len(x)
                out_of_bounds ==
                    \/ \E k \in 1..Len(min_zeros) : min_zeros[k] + 1 > n
                    \/ \E k \in 1..Len(max_zeros) : max_zeros[k] + 1 > n
                min_x_position ==
                    [k \in 1..Len(min_zeros) |->
                        (x[min_zeros[k] + 1] + x[min_zeros[k]]) \div 2]
                max_x_position ==
                    [k \in 1..Len(max_zeros) |->
                        (x[max_zeros[k] + 1] + x[max_zeros[k]]) \div 2]
            IN  IF out_of_bounds
                THEN [raised |-> "IndexError",
                      min_x_position |-> <<>>, max_x_position |-> <<>>,
                      min_values |-> <<>>, max_values |-> <<>>]
                ELSE [raised |-> "none",
                      min_x_position |-> min_x_position,
                      max_x_position |-> max_x_position,
                      \* np.interp(min_x_position, x, f)      (over h)
                      min_values |-> Interp(min_x_position, x, f),
                      \* np.interp(max_x_position, x, f)      (over h)
                      max_values |-> Interp(max_x_position, x, f)]
        \* lines 572-582, given the two interpolated derivatives:
        \* f_derivative_zeros[f_derivative_second[f_derivative_zeros] > 0]
        \* are the minima, those with < 0 the maxima
        Classify(f_derivative, f_derivative_second) ==
            CHOOSE r \in
                {Locate(SelectSeq(zeros, LAMBDA z : f_derivative_second[z] > 0),
                        SelectSeq(zeros, LAMBDA z : f_derivative_second[z] < 0)) :
                    zeros \in {Zeros(f_derivative)}} : TRUE
    IN  \* f_derivative = np.interp(x, x_derivative, np.diff(f))     (over h)
        \* f_derivative_second =
        \*     np.interp(x, x_derivative, np.diff(f_derivative))   (over h^2)
        \* (each array is computed once and then named)
        CHOOSE r \in UNION {
                 {Classify(fd, fs) : fs \in {Interp(x, x_derivative, Diff(fd))}} :
                     fd \in {Interp(x, x_derivative, Diff(f))}} : TRUE

---------------------------------------------------------------------------
(* potential_well_cut(time_potential, potential_array).                    *)
(* A boolean mask is modelled by the set of the indices it selects.  Each  *)
(* branch yields [raised, saved]: the exception it ends with ("none" when  *)
(* it falls through to the return statement) and its mask.                 *)

\* np.min / np.max of a non-empty array
ArrayMin(s) == CHOOSE a \in {s[k] : k \in 1..Len(s)} :
                   \A k \in 1..Len(s) : a <= s[k]

ArrayMax(s) == CHOOSE a \in {s[k] : k \in 1..Len(s)} :
                   \A k \in 1..Len(s) : a >= s[k]

\* cut_one_maximum with "<=" for "<" in the comparison with the maximum
cut_one_maximum_nonstrict(x, f, mm) ==
    LET n == Len(x)
        h == Step(x)
        min_t == mm.min_x_position
        max_t == mm.max_x_position
        max_v == mm.max_values
    IN  IF min_t[1] > max_t[1]
        THEN [saved  |-> {i \in 1..n : h * f[i] <= max_v[1] /\ x[i] > max_t[1]},
              raised |-> IF f[n] < f[1] THEN "RuntimeError" ELSE "none"]
        ELSE [saved  |-> {i \in 1..n : h * f[i] <= max_v[1] /\ x[i] < max_t[1]},
              raised |-> IF f[n] > f[1] THEN "RuntimeError" ELSE "none"]

\* branch n_maxima == 1; mm is the record minmax_location returned
cut_one_maximum(x, f, mm) ==
    LET n == Len(x)
        h == Step(x)
        min_t == mm.min_x_position
        max_t == mm.max_x_position
        max_v == mm.max_values
    IN  IF min_t[1] > max_t[1]
        THEN [saved  |-> {i \in 1..n : h * f[i] < max_v[1] /\ x[i] > max_t[1]},
              raised |-> IF f[n] < f[1] THEN "RuntimeError" ELSE "none"]
        ELSE [saved  |-> {i \in 1..n : h * f[i] < max_v[1] /\ x[i] < max_t[1]},
              raised |-> IF f[n] > f[1] THEN "RuntimeError" ELSE "none"]

\* branch n_maxima == 2
cut_two_maxima(x, f, mm) ==
    LET n == Len(x)
        h == Step(x)
        min_t == mm.min_x_position
        max_t == mm.max_x_position
        max_v == mm.max_values
        lower_maximum_value  == ArrayMin(max_v)
        higher_maximum_value == ArrayMax(max_v)
        \* max_time_positions[max_potential_values == lower_maximum_value]
        lower_maximum_time ==
            Take(max_t, SelectSeq(<<1, 2>>,
                                  LAMBDA k : max_v[k] = lower_maximum_value))
        higher_maximum_time ==
            Take(max_t, SelectSeq(<<1, 2>>,
                                  LAMBDA k : max_v[k] = higher_maximum_value))
    IN  IF Len(lower_maximum_time) = 2
        THEN [saved  |-> {i \in 1..n : /\ h * f[i] < lower_maximum_value
                                       /\ x[i] > lower_maximum_time[1]
                                       /\ x[i] < lower_maximum_time[2]},
              raised |-> "none"]
        ELSE IF min_t[1] > lower_maximum_time[1]
        THEN [saved  |-> {i \in 1..n : /\ h * f[i] < lower_maximum_value
                                       /\ x[i] > lower_maximum_time[1]
                                       /\ x[i] < higher_maximum_time[1]},
              raised |-> "none"]
        ELSE [saved  |-> {i \in 1..n : /\ h * f[i] < lower_maximum_value
                                       /\ x[i] < lower_maximum_time[1]
                                       /\ x[i] > higher_maximum_time[1]},
              raised |-> "none"]

\* cut_many_maxima with the first two maxima, not the outer ones, as walls
cut_many_maxima_first_two(x, f, mm) ==
    LET n == Len(x)
        h == Step(x)
        max_t == mm.max_x_position
        max_v == mm.max_values
    IN  [saved  |-> {i \in 1..n : /\ x[i] > max_t[1]
                                  /\ x[i] < max_t[2]
                                  /\ h * f[i] < ArrayMin(<<max_v[1], max_v[2]>>)},
         raised |-> "none"]

\* branch n_maxima > 2
cut_many_maxima(x, f, mm) ==
    LET n == Len(x)
        h == Step(x)
        max_t == mm.max_x_position
        max_v == mm.max_values
        left_max_time  == ArrayMin(max_t)
        right_max_time == ArrayMax(max_t)
        \* max_potential_values[max_time_positions == left_max_time]
        left_max_value ==
            max_v[CHOOSE k \in 1..Len(max_t) : max_t[k] = left_max_time]
        right_max_value ==
            max_v[CHOOSE k \in 1..Len(max_t) : max_t[k] = right_max_time]
        separatrix_value == ArrayMin(<<left_max_value, right_max_value>>)
    IN  [saved  |-> {i \in 1..n : /\ x[i] > left_max_time
                                  /\ x[i] < right_max_time
                                  /\ h * f[i] < separatrix_value},
         raised |-> "none"]

\* what leaves the call without a result
CutRaise(exc, warned, mm) ==
    [raised |-> exc, printed |-> warned, mm |-> mm, saved_indexes |-> {},
     time_potential_sep |-> <<>>, potential_well_sep |-> <<>>]

\* return time_potential_sep, potential_well_sep
CutReturn(x, f, saved, mm) ==
    [raised |-> "none", printed |-> FALSE, mm |-> mm, saved_indexes |-> saved,
     time_potential_sep |-> Take(x, SortedSeq(saved, Len(x))),
     potential_well_sep |-> Take(f, SortedSeq(saved, Len(x)))]

\* cut_checks with the zero-maxima fallback tested before the two raises
cut_checks_fallback_first(n_minima, n_maxima) ==
    IF n_maxima = 0 THEN "warning"
    ELSE IF n_minima = 0 THEN "RuntimeError"
    ELSE IF n_minima > n_maxima /\ n_maxima = 1 THEN "RuntimeError"
    ELSE "branch"

\* the checks of lines 600-610 on the counts of detected extrema:
\* "RuntimeError" (one of the two raise statements), "warning" (zero
\* maxima: the warning is printed and no branch is taken) or "branch"
cut_checks(n_minima, n_maxima) ==
    IF n_minima = 0 THEN "RuntimeError"
    ELSE IF n_minima > n_maxima /\ n_maxima = 1 THEN "RuntimeError"
    ELSE IF n_maxima = 0 THEN "warning"
    ELSE "branch"

potential_well_cut(x, f) ==
    LET Cut(mm) ==
            LET n_minima == Len(mm.min_x_position)
                n_maxima == Len(mm.max_x_position)
                check == cut_checks(n_minima, n_maxima)
                Finish(branch) ==
                    IF branch.raised # "none"
                    THEN CutRaise(branch.raised, FALSE, mm)
                    ELSE CutReturn(x, f, branch.saved, mm)
            IN  IF mm.raised # "none" THEN CutRaise(mm.raised, FALSE, mm)
                ELSE IF check = "RuntimeError"
                     THEN CutRaise("RuntimeError", FALSE, mm)
                ELSE IF check = "warning"
                     \* the warning is printed, no branch has assigned
                     \* time_potential_sep and the return statement reads it
                     THEN CutRaise("UnboundLocalError", TRUE, mm)
                ELSE IF n_maxima = 1
                     THEN Finish(cut_one_maximum(x, f, mm))
                ELSE IF n_maxima = 2
                     THEN Finish(cut_two_maxima(x, f, mm))
                ELSE Finish(cut_many_maxima(x, f, mm))
    IN  CHOOSE r \in {Cut(mm) : mm \in {minmax_location(x, f)}} : TRUE

---------------------------------------------------------------------------
(* The caller: it holds one sampled function and calls either function     *)
(* on it once.                                                             *)

\* the uniform grid of n points that starts at x0 with step h
Grid(n, x0, h) == [i \in 1..n |-> x0 + h * (i - 1)]

\* no caller of the normalisation helpers
ModIdle ==
    /\ mod_fn = "none"
    /\ mod_args = <<>>
    /\ mod_out = <<>>

\* no caller of the RF formulas
RFIdle ==
    /\ general_params = <<>>
    /\ rf_section = <<>>
    /\ beam = <<>>
    /\ rf_fn = "none"
    /\ rf_args = <<>>
    /\ rf_done = FALSE
    /\ rf_result = <<>>

\* no caller of synchrotron_frequency_distribution
SFDIdle ==
    /\ sfd_time = <<>>
    /\ sfd_well = <<>>
    /\ sfd_smooth = <<>>
    /\ sfd_done = FALSE
    /\ sfd_result = <<>>
    /\ sfd_ring_well = <<>>

\* no tracker
TrackerIdle ==
    /\ trk_args = <<>>
    /\ trk_state = "none"
    /\ tracker = <<>>
    /\ trk_raised = "none"
    /\ trk_history = <<>>
    /\ trk_heap = <<>>

\* no caller of moving_average
MovingAverageIdle ==
    /\ ma_signal = <<>>
    /\ ma_n = 0
    /\ ma_prev = <<>>
    /\ ma_time = 0
    /\ ma_last = <<>>
    /\ ma_iterations = 0

\* no caller of combine_rf_functions
CombineIdle ==
    /\ cmb_args = <<>>
    /\ cmb_done = FALSE
    /\ cmb_result = <<>>

\* no caller of PreprocessRFParams.preprocess
PreprocessIdle ==
    /\ pre_args = <<>>
    /\ pre_done = FALSE
    /\ pre_result = <<>>

\* no _FrequencyOffset object
OffsetIdle ==
    /\ fo_args = <<>>
    /\ fo_self = <<>>
    /\ fo_station = <<>>
    /\ fo_pc = "none"
    /\ fo_raised = "none"

\* no caller outside the potential-well extractor
NotWell ==
    /\ ModIdle /\ RFIdle /\ SFDIdle /\ TrackerIdle
    /\ MovingAverageIdle /\ CombineIdle /\ PreprocessIdle /\ OffsetIdle

WellInit ==
    /\ NotWell
    /\ \E n \in 3..MaxLen : \E x0 \in TimeStarts : \E h \in TimeSteps :
         /\ time_potential = Grid(n, x0, h)
         /\ potential_array \in [1..n -> 0..MaxVal]
    /\ called = "none"
    /\ raised = "none"
    /\ printed = FALSE
    /\ min_time_positions = <<>>
    /\ max_time_positions = <<>>
    /\ min_values = <<>>
    /\ max_potential_values = <<>>
    /\ saved_indexes = {}
    /\ time_potential_sep = <<>>
    /\ potential_well_sep = <<>>
    /\ warnings_filters = <<>>

Call_minmax_location ==
    /\ called = "none"
    /\ \E r \in {minmax_location(time_potential, potential_array)} :
           /\ called' = "minmax_location"
           /\ raised' = r.raised
           /\ min_time_positions' = r.min_x_position
           /\ max_time_positions' = r.max_x_position
           /\ min_values' = r.min_values
           /\ max_potential_values' = r.max_values
           /\ warnings_filters' =
                  minmax_location_filters(warnings_filters, r.raised)
    /\ UNCHANGED <<time_potential, potential_array, printed, saved_indexes,
                   time_potential_sep, potential_well_sep, not_well_vars>>

Call_potential_well_cut ==
    /\ called = "none"
    /\ \E r \in {potential_well_cut(time_potential, potential_array)} :
           /\ called' = "potential_well_cut"
           /\ raised' = r.raised
           /\ printed' = r.printed
           /\ min_time_positions' = r.mm.min_x_position
           /\ max_time_positions' = r.mm.max_x_position
           /\ min_values' = r.mm.min_values
           /\ max_potential_values' = r.mm.max_values
           /\ saved_indexes' = r.saved_indexes
           /\ time_potential_sep' = r.time_potential_sep
           /\ potential_well_sep' = r.potential_well_sep
           /\ warnings_filters' =
                  minmax_location_filters(warnings_filters, r.mm.raised)
    /\ UNCHANGED <<time_potential, potential_array, not_well_vars>>

WellNext == Call_minmax_location \/ Call_potential_well_cut

SpecWell == WellInit /\ [][WellNext]_vars

---------------------------------------------------------------------------
(* Properties of the potential-well extractor (checked under SpecWell).    *)

\* potential_well_cut has been called and minmax_location returned inside
\* it, so that the counts of detected extrema exist
CutDetected == called = "potential_well_cut" /\ raised # "IndexError"

n_minima == Len(min_time_positions)

n_maxima == Len(max_time_positions)

\* the grid step and the last index of the caller's arrays
h_grid == Step(time_potential)

n_samples == Len(time_potential)

\* potential_array[i] < v for a value v carried as a numerator over h
Below(i, v) == h_grid * potential_array[i] < v

\* the call returned the pair selected by the index set K
ReturnedExactly(K) ==
    /\ raised = "none"
    /\ saved_indexes = K
    /\ Len(time_potential_sep) = Cardinality(K)
    /\ Len(potential_well_sep) = Cardinality(K)
    /\ \A k \in 1..Len(time_potential_sep) :
         \E i \in K :
            /\ Cardinality({j \in K : j <= i}) = k
            /\ time_potential_sep[k] = time_potential[i]
            /\ potential_well_sep[k] = potential_array[i]

\* the call ended with exc and handed nothing to the caller
RaisedOnly(exc) ==
    /\ raised = exc
    /\ time_potential_sep = <<>>
    /\ potential_well_sep = <<>>

\* C1: when at least one minimum and zero maxima are detected,
\* potential_well_cut does not fail: it prints its diagnostic and returns
\* the whole input (time, potential) pair unchanged.
C1_ZeroMaximaReturnsFullWell ==
    (CutDetected /\ n_minima >= 1 /\ n_maxima = 0) =>
        /\ raised = "none"
        /\ printed
        /\ time_potential_sep = time_potential
        /\ potential_well_sep = potential_array

\* C2: whenever potential_well_cut returns (1, 2 or more than 2 detected
\* maxima), the kept samples are one run of consecutive input indices: no
\* sample between the first and the last kept sample is dropped.
C2_KeptSamplesContiguous ==
    (called = "potential_well_cut" /\ raised = "none") =>
        \A i \in saved_indexes : \A k \in saved_indexes :
            \A j \in i..k : j \in saved_indexes

\* C3: potential_well_cut raises RuntimeError and returns nothing whenever
\* zero minima are detected, whatever the number of maxima (the warning of
\* the zero-maxima fallback is not even printed), and whenever more minima
\* than maxima are detected with exactly one maximum.
C3_NoMinimumRaises ==
    (CutDetected /\ (n_minima = 0 \/ (n_minima > n_maxima /\ n_maxima = 1)))
        => (RaisedOnly("RuntimeError") /\ ~printed)

\* zero minima and zero maxima: the error wins over the fallback
C3_Witness ==
    /\ CutDetected /\ n_minima = 0 /\ n_maxima = 0
    /\ raised = "RuntimeError"

\* more minima than maxima with one maximum: the second raise
C3_WitnessMoreMinima ==
    /\ CutDetected /\ n_minima = 2 /\ n_maxima = 1
    /\ raised = "RuntimeError"

\* the two detected maxima of the 2-maxima case: times and values
TwoMaxima == CutDetected /\ n_minima >= 1 /\ n_maxima = 2

\* index (1 or 2) of the lower of two untied maxima, and of the other one
LowerMax == IF max_potential_values[1] < max_potential_values[2] THEN 1 ELSE 2

HigherMax == 3 - LowerMax

\* sample i lies strictly between the two detected maxima in time
BetweenTwoMaxima(i) ==
    /\ time_potential[i] > max_time_positions[1]
    /\ time_potential[i] < max_time_positions[2]

\* sample i lies on the same side of time t as the first detected minimum
SideOfMinimum(i, t) ==
    IF min_time_positions[1] > t THEN time_potential[i] > t
                                 ELSE time_potential[i] < t

\* the sample next to the extremum position t (a mid-point of the grid)
\* on its left; the extremum lies between it and the next sample
LeftOf(t) == CHOOSE i \in 1..(n_samples - 1) :
                 time_potential[i] < t /\ t < time_potential[i + 1]

\* C4, tied part: two maxima of equal value keep exactly the samples
\* strictly between them in time and strictly below that value.
C4_TiedMaximaWindow ==
    (TwoMaxima /\ max_potential_values[1] = max_potential_values[2]) =>
        ReturnedExactly({i \in 1..n_samples :
            BetweenTwoMaxima(i) /\ Below(i, max_potential_values[1])})

\* C4, untied part: the kept samples are those on the side of the lower
\* maximum where the (first) minimum lies, strictly between the two maxima
\* and strictly below the lower maximum.
C4_UntiedMaximaWindow ==
    (TwoMaxima /\ max_potential_values[1] # max_potential_values[2]) =>
        ReturnedExactly({i \in 1..n_samples :
            /\ SideOfMinimum(i, max_time_positions[LowerMax])
            /\ BetweenTwoMaxima(i)
            /\ Below(i, max_potential_values[LowerMax])})

\* C4, consequence: whenever a detected minimum lies between the two
\* maxima, the returned segment is not empty and holds a sample next to it.
C4_MinimumBetweenIsKept ==
    TwoMaxima =>
        \A k \in 1..n_minima :
            (/\ min_time_positions[k] > max_time_positions[1]
             /\ min_time_positions[k] < max_time_positions[2])
            => /\ raised = "none"
               /\ saved_indexes # {}
               /\ \/ LeftOf(min_time_positions[k]) \in saved_indexes
                  \/ LeftOf(min_time_positions[k]) + 1 \in saved_indexes

\* C4: with exactly 2 detected maxima: tied maxima keep the samples
\* strictly between them below their value; otherwise the samples on the
\* minimum's side of the lower maximum, between the maxima and below the
\* lower maximum, are kept; so a detected minimum between the two maxima is
\* always inside a non-empty returned segment.
C4_TwoMaximaCut ==
    /\ C4_TiedMaximaWindow
    /\ C4_UntiedMaximaWindow
    /\ C4_MinimumBetweenIsKept

\* the branch of exactly one maximum is reached
OneMaximum == CutDetected /\ n_minima = 1 /\ n_maxima = 1

\* the array edge contradicts the side that is kept
EdgeInconsistent ==
    IF min_time_positions[1] > max_time_positions[1]
    THEN potential_array[n_samples] < potential_array[1]
    ELSE potential_array[n_samples] > potential_array[1]

\* C5: with exactly 1 detected maximum the call keeps exactly the samples
\* strictly below the maximum's value and strictly on the side of the
\* maximum where the first detected minimum lies; it raises RuntimeError
\* instead when the array edge is inconsistent with that side.
C5_OneMaximumCut ==
    OneMaximum =>
        IF EdgeInconsistent
        THEN RaisedOnly("RuntimeError")
        ELSE ReturnedExactly({i \in 1..n_samples :
                /\ Below(i, max_potential_values[1])
                /\ SideOfMinimum(i, max_time_positions[1])})

\* one maximum, minimum on its right, a non-empty cut returned
C5_Witness ==
    /\ OneMaximum
    /\ min_time_positions[1] > max_time_positions[1]
    /\ raised = "none"
    /\ saved_indexes # {}

\* one maximum, minimum on its left, inconsistent edge: the call raised
C5_WitnessRaise ==
    /\ OneMaximum
    /\ min_time_positions[1] < max_time_positions[1]
    /\ EdgeInconsistent
    /\ raised = "RuntimeError"

\* the smaller of two values
Min2(a, b) == IF a <= b THEN a ELSE b

\* index of the leftmost and of the rightmost detected maximum
LeftmostMax == CHOOSE k \in 1..n_maxima :
                   \A l \in 1..n_maxima :
                       max_time_positions[k] <= max_time_positions[l]

RightmostMax == CHOOSE k \in 1..n_maxima :
                    \A l \in 1..n_maxima :
                        max_time_positions[k] >= max_time_positions[l]

\* the lower of the values of the two outer maxima
OuterCutoff == Min2(max_potential_values[LeftmostMax],
                    max_potential_values[RightmostMax])

ManyMaxima == CutDetected /\ n_minima >= 1 /\ n_maxima > 2

\* C6: with more than 2 detected maxima the call keeps exactly the samples
\* strictly between the leftmost and the rightmost maximum in time and
\* strictly below the lower of these two outer maxima; the inner maxima
\* play no role.
C6_ManyMaximaCut ==
    ManyMaxima =>
        ReturnedExactly({i \in 1..n_samples :
            /\ time_potential[i] > max_time_positions[LeftmostMax]
            /\ time_potential[i] < max_time_positions[RightmostMax]
            /\ Below(i, OuterCutoff)})

\* more than two maxima, an inner one higher than the cutoff, and a
\* non-empty cut returned that reaches across that inner maximum
C6_Witness ==
    /\ ManyMaxima
    /\ raised = "none"
    /\ \E k \in 1..n_maxima : \E i \in saved_indexes : \E j \in saved_indexes :
         /\ max_potential_values[k] > OuterCutoff
         /\ time_potential[i] < max_time_positions[k]
         /\ max_time_positions[k] < time_potential[j]

\* C7: for every uniformly sampled function of at least 3 samples, flat
\* runs included (also in the last samples), minmax_location returns
\* without raising, with as many minima (maxima) values as positions and
\* every position within [x[0], x[-1]].
C7_MinmaxLocationTotal ==
    called = "minmax_location" =>
        /\ raised = "none"
        /\ Len(min_time_positions) = Len(min_values)
        /\ Len(max_time_positions) = Len(max_potential_values)
        /\ \A k \in 1..n_minima :
             /\ time_potential[1] <= min_time_positions[k]
             /\ min_time_positions[k] <= time_potential[n_samples]
        /\ \A k \in 1..n_maxima :
             /\ time_potential[1] <= max_time_positions[k]
             /\ max_time_positions[k] <= time_potential[n_samples]

---------------------------------------------------------------------------
(* Floating-point arithmetic of the normalisation helpers.  A value is an  *)
(* integer number of quanta; it is representable when it has at most       *)
(* MantBits significant bits.                                              *)

RECURSIVE Pow2(_)
Pow2(k) == IF k = 0 THEN 1 ELSE 2 * Pow2(k - 1)

\* 1.0, in quanta
One == Pow2(FracBits)

\* the spacing of the representable values around num/den >= 0
RECURSIVE UlpFrom(_, _, _)
UlpFrom(num, den, u) ==
    IF num < Pow2(MantBits) * u * den THEN u ELSE UlpFrom(num, den, 2 * u)

\* num/den >= 0 rounded to the nearest representable value, ties to even
RoundPos(num, den) ==
    LET u == UlpFrom(num, den, 1)
        q == num \div (den * u)
        r == num % (den * u)
    IN  IF 2 * r < den * u THEN q * u
        ELSE IF 2 * r > den * u THEN (q + 1) * u
        ELSE IF q % 2 = 0 THEN q * u ELSE (q + 1) * u

\* the float nearest to the rational num/den (den > 0)
Round(num, den) ==
    IF num < 0 THEN 0 - RoundPos(0 - num, den) ELSE RoundPos(num, den)

\* a + b, a - b, a * b, a / b (b # 0) and np.floor(a) on floats
FAdd(a, b) == Round(a + b, 1)

FSub(a, b) == Round(a - b, 1)

FMul(a, b) == Round(a * b, One)

FDiv(a, b) == IF b > 0 THEN Round(a * One, b) ELSE Round((0 - a) * One, 0 - b)

FFloor(a) == (a \div One) * One

\* the representable values of [-MaxArg, MaxArg]
Floats == {a \in (0 - MaxArg * One)..(MaxArg * One) : Round(a, 1) = a}

\* pi = PiNum/PiDen to 7 digits; np.pi is the float nearest to it
PiNum == 355

PiDen == 113

np_pi == Round(PiNum * One, PiDen)

\* 2.*np.pi
TwoPi == FMul(2 * One, np_pi)

---------------------------------------------------------------------------
(* The normalisation helpers.                                              *)

\* phi - 2.*np.pi*np.floor(phi/(2.*np.pi))
phase_modulo_above_transition(phi) ==
    FSub(phi, FMul(TwoPi, FFloor(FDiv(phi, TwoPi))))

\* phi - 2.*np.pi*(np.floor(phi/(2.*np.pi) + 0.5))
phase_modulo_below_transition(phi) ==
    FSub(phi, FMul(TwoPi, FFloor(FAdd(FDiv(phi, TwoPi), One \div 2))))

\* dt - T*np.floor((dt + dt_offset)/T)
time_modulo(dt, dt_offset, T) ==
    FSub(dt, FMul(T, FFloor(FDiv(FAdd(dt, dt_offset), T))))

\* no caller of the potential-well extractor
WellIdle ==
    /\ time_potential = <<>>
    /\ potential_array = <<>>
    /\ called = "none"
    /\ raised = "none"
    /\ printed = FALSE
    /\ min_time_positions = <<>>
    /\ max_time_positions = <<>>
    /\ min_values = <<>>
    /\ max_potential_values = <<>>
    /\ saved_indexes = {}
    /\ time_potential_sep = <<>>
    /\ potential_well_sep = <<>>

\* a caller of time_modulo with its three arguments (a period T of at
\* least one time unit), or a caller of one of the phase helpers with a
\* phase
\* no caller outside the normalisation helpers
NotMod ==
    /\ WellIdle /\ RFIdle /\ SFDIdle /\ TrackerIdle
    /\ MovingAverageIdle /\ CombineIdle /\ PreprocessIdle /\ OffsetIdle

ModInit ==
    /\ NotMod
    /\ warnings_filters = <<>>
    /\ mod_out = <<>>
    /\ \/ /\ mod_fn = "time_modulo"
          /\ mod_args \in Floats \X Floats \X {T \in Floats : T >= One}
       \/ /\ mod_fn \in {"phase_modulo_above_transition",
                         "phase_modulo_below_transition"}
          /\ \E phi \in Floats : mod_args = <<phi>>

Call_time_modulo ==
    /\ mod_fn = "time_modulo"
    /\ mod_out = <<>>
    /\ mod_out' = <<time_modulo(mod_args[1], mod_args[2], mod_args[3])>>
    /\ UNCHANGED <<mod_fn, mod_args, not_mod_vars>>

\* the argument of the next call of a phase helper: the caller's phase,
\* then the value the previous call returned
NextPhase == IF mod_out = <<>> THEN mod_args[1] ELSE mod_out[Len(mod_out)]

Call_phase_modulo_above_transition ==
    /\ mod_fn = "phase_modulo_above_transition"
    /\ Len(mod_out) < 2
    /\ mod_out' = Append(mod_out, phase_modulo_above_transition(NextPhase))
    /\ UNCHANGED <<mod_fn, mod_args, not_mod_vars>>

Call_phase_modulo_below_transition ==
    /\ mod_fn = "phase_modulo_below_transition"
    /\ Len(mod_out) < 2
    /\ mod_out' = Append(mod_out, phase_modulo_below_transition(NextPhase))
    /\ UNCHANGED <<mod_fn, mod_args, not_mod_vars>>

ModNext ==
    \/ Call_time_modulo
    \/ Call_phase_modulo_above_transition
    \/ Call_phase_modulo_below_transition

SpecModulo == ModInit /\ [][ModNext]_vars

---------------------------------------------------------------------------
(* Properties of the normalisation helpers (checked under SpecModulo).     *)

\* C8: for every dt, dt_offset and T > 0, r = time_modulo(dt, dt_offset, T)
\* satisfies 0 <= r + dt_offset < T (so that r is dt moved by whole periods
\* into the half-open interval); in particular a dt at the upper bound
\* -dt_offset + T maps to the lower bound -dt_offset.
C8_TimeModuloInRange ==
    (mod_fn = "time_modulo" /\ mod_out # <<>>) =>
        LET dt == mod_args[1]
            dt_offset == mod_args[2]
            T == mod_args[3]
            r == mod_out[1]
        IN  /\ 0 <= r + dt_offset
            /\ r + dt_offset < T
            /\ (dt = T - dt_offset) => (r = 0 - dt_offset)

\* a phase helper has been applied to a phase and then to its own result
PhaseAppliedTwice ==
    /\ mod_fn \in {"phase_modulo_above_transition",
                   "phase_modulo_below_transition"}
    /\ Len(mod_out) = 2

\* C9: phase_modulo_above_transition and phase_modulo_below_transition are
\* idempotent for every input phase: applied to its own result (a phase
\* that differs from the input by whole turns of 2 pi), each returns that
\* result.
C9_PhaseModuloIdempotent ==
    PhaseAppliedTwice => mod_out[2] = mod_out[1]

\* C10: both phase helpers project every phase into [-pi/2, 3 pi/2]:
\* -pi/2 <= r <= 3 pi/2 for the returned r (r/One in radians).
C10_PhaseModuloRange ==
    (mod_fn # "time_modulo" /\ mod_out # <<>>) =>
        /\ 0 - PiNum * One <= 2 * PiDen * mod_out[1]
        /\ 2 * PiDen * mod_out[1] <= 3 * PiNum * One

---------------------------------------------------------------------------
(* RF formulas: total_voltage, hamiltonian, separatrix, is_in_separatrix.  *)
(* Their claims are about which data a formula uses and about the sign of  *)
(* a radicand, not about rounding, so they are modelled on a grid: a phase *)
(* is a whole number of steps of pi/6, a time a whole number of ticks, an  *)
(* angular frequency a whole number of steps per tick.  np.cos and np.sin  *)
(* are tabulated in hundredths and a phase difference that multiplies a    *)
(* sine is taken in hundredths of a radian, so that a bracket such as      *)
(* cos(phi_b) - cos(phi_s) + (phi_b - phi_s) sin(phi_s) is carried as an   *)
(* integer number of 1/10000.  Units: c = ring_circumference = beta = 1.   *)

\* pi, in steps
HalfTurn == 6

\* one step (pi/6 = 0.5236), in hundredths of a radian
RadPerStep == 52

\* np.pi, in hundredths
Pi100 == HalfTurn * RadPerStep

\* a phase of whole steps, in hundredths of a radian
Rad(phi) == RadPerStep * phi

\* 100 cos(k pi/6), k = 0..11
CosTable == <<100, 87, 50, 0, -50, -87, -100, -87, -50, 0, 50, 87>>

\* np.cos and np.sin of a phase of whole steps, in hundredths
np_cos(phi) == CosTable[(phi % (2 * HalfTurn)) + 1]

np_sin(phi) == np_cos(phi - HalfTurn \div 2)

\* np.cos of the phase num/den steps (den > 0), linear between the table
\* entries, as a numerator over 100 den
np_cos_frac(num, den) ==
    LET k == num \div den
        r == num - k * den
    IN  np_cos(k) * (den - r) + np_cos(k + 1) * r

\* np.sign
np_sign(v) == IF v > 0 THEN 1 ELSE IF v < 0 THEN 0 - 1 ELSE 0

\* np.fabs
np_fabs(v) == IF v < 0 THEN 0 - v ELSE v

\* the entry np.sqrt leaves for a negative radicand
NaN == 0 - 1

\* the largest k of lo..hi with k*k <= n  (lo*lo <= n < (hi+1)*(hi+1))
RECURSIVE SqrtIn(_, _, _)
SqrtIn(n, lo, hi) ==
    IF lo = hi THEN lo
    ELSE LET mid == (lo + hi + 1) \div 2
         IN  IF mid * mid <= n THEN SqrtIn(n, mid, hi)
             ELSE SqrtIn(n, lo, mid - 1)

\* a mutant of np_sqrt: a negative radicand is clamped to 0
np_sqrt_clamped(r) == IF r < 0 THEN 0 ELSE SqrtIn(r, 0, 46340)

\* np.sqrt, rounded down to a whole number; NaN for a negative radicand
\* (numpy reports it with a RuntimeWarning, which the "once" filter the
\* callers install prints and does not raise)
np_sqrt(r) == IF r < 0 THEN NaN ELSE SqrtIn(r, 0, 46340)

\* phase_modulo_above_transition on whole steps:
\* phi - 2.*np.pi*np.floor(phi/(2.*np.pi))
phase_above_steps(phi) == phi - 2 * HalfTurn * (phi \div (2 * HalfTurn))

\* phase_modulo_below_transition on whole steps:
\* phi - 2.*np.pi*(np.floor(phi/(2.*np.pi) + 0.5))
phase_below_steps(phi) ==
    phi - 2 * HalfTurn * ((phi + HalfTurn) \div (2 * HalfTurn))

\* time_modulo on whole ticks: dt - T*np.floor((dt + dt_offset)/T)
time_modulo_ticks(dt, dt_offset, T) == dt - T * ((dt + dt_offset) \div T)

\* the value of an argument that is not supplied
None == <<>>

\* the result of a call: the exception that left it ("none": it
\* returned), the warnings it emitted, the value it returned
Returned(warned, value) ==
    [raised |-> "none", warned |-> warned, value |-> value]

Raised(exc, warned) ==
    [raised |-> exc, warned |-> warned, value |-> None]

\* total_voltage(RFsection_list, harmonic): a section is its first-harmonic
\* voltage and phase; the value is in hundredths
total_voltage(RFsection_list, harmonic) ==
    LET n_sections == Len(RFsection_list)
        RECURSIVE Vcos(_), Vsin(_)
        Vcos(i) == IF i = 0 THEN 0
                   ELSE Vcos(i - 1) + RFsection_list[i].voltage
                                        * np_cos(RFsection_list[i].phi_RF)
        Vsin(i) == IF i = 0 THEN 0
                   ELSE Vsin(i - 1) + RFsection_list[i].voltage
                                        * np_sin(RFsection_list[i].phi_RF)
    IN  IF harmonic = "first"
        THEN Returned({}, np_sqrt(Vcos(n_sections) * Vcos(n_sections)
                                  + Vsin(n_sections) * Vsin(n_sections)))
        ELSE IF harmonic = "all"
        THEN Returned({}, 0)
        \* warnings.warn under the "once" filter: the call falls off the
        \* end of the function and returns None
        ELSE Returned({"harmonic choice not recognize"}, None)

\* RFSectionParameters.eta_tracking(Beam, counter, dE): the slip factor of
\* the turn (zeroth order in the momentum offset)
eta_tracking(RFSectionParameters, Beam, counter, dE) ==
    RFSectionParameters.eta_0[counter + 1]

\* the warnings of hamiltonian
hamiltonian_warnings(GeneralParameters, RFSectionParameters) ==
    (IF GeneralParameters.n_sections > 1
     THEN {"The Hamiltonian is not yet properly computed for several sections!"}
     ELSE {})
    \cup
    (IF RFSectionParameters.n_rf > 1
     THEN {"The Hamiltonian will be calculated for the first harmonic only!"}
     ELSE {})

\* the value hamiltonian returns, computed from the data of RF system i
\* (the code subscripts harmonic, voltage, omega_RF and phi_RF with 0: i = 1
\* here).  With h0 the harmonic number, the value is
\*     c1 dE^2 + c2 (cos(phi_b) - cos(phi_s) + (phi_b - phi_s) sin(phi_s)),
\*     c1 = eta pi / Beam.energy,  c2 = V0 / h0,
\* returned as an integer number of 1/(10000 h0 Beam.energy).
single_rf_hamiltonian(i, RFSectionParameters, Beam, dt, dE, total_voltage_) ==
    LET counter == RFSectionParameters.counter[1]
        h0 == RFSectionParameters.harmonic[i][counter + 1]
        V0 == (IF total_voltage_ = None
               THEN RFSectionParameters.voltage[i][counter + 1]
               ELSE total_voltage_[counter + 1]) * RFSectionParameters.charge
        \* c1 * (100 h0 Beam.energy) and c2 * (h0 Beam.energy)
        c1 == eta_tracking(RFSectionParameters, Beam, counter, dE)
                  * Pi100 * h0
        c2 == Beam.beta * V0 * Beam.energy
        phi_s == RFSectionParameters.phi_s[counter + 1]
        phi_b0 == RFSectionParameters.omega_RF[i][counter + 1] * dt
                      + RFSectionParameters.phi_RF[i][counter + 1]
        eta0 == RFSectionParameters.eta_0[counter + 1]
        phi_b == IF eta0 < 0 THEN phase_below_steps(phi_b0)
                 ELSE IF eta0 > 0 THEN phase_above_steps(phi_b0)
                 ELSE phi_b0
    IN  c1 * 100 * dE * dE
        + c2 * (100 * (np_cos(phi_b) - np_cos(phi_s))
                + Rad(phi_b - phi_s) * np_sin(phi_s))

\* a mutant of hamiltonian: the data of the last RF system are used
hamiltonian_last_harmonic(GeneralParameters, RFSectionParameters, Beam, dt, dE, total_voltage_) ==
    Returned(hamiltonian_warnings(GeneralParameters, RFSectionParameters),
             single_rf_hamiltonian(RFSectionParameters.n_rf,
                                   RFSectionParameters, Beam, dt, dE,
                                   total_voltage_))

\* hamiltonian(GeneralParameters, RFSectionParameters, Beam, dt, dE,
\*             total_voltage)
hamiltonian(GeneralParameters, RFSectionParameters, Beam, dt, dE, total_voltage_) ==
    Returned(hamiltonian_warnings(GeneralParameters, RFSectionParameters),
             single_rf_hamiltonian(1, RFSectionParameters, Beam, dt, dE,
                                   total_voltage_))

\* is_in_separatrix(GeneralParameters, RFSectionParameters, Beam, dt, dE,
\*                  total_voltage): both calls of hamiltonian are made with
\* total_voltage = None
is_in_separatrix(GeneralParameters, RFSectionParameters, Beam, dt, dE, total_voltage_) ==
    LET warned ==
            (IF GeneralParameters.n_sections > 1
             THEN {"is_in_separatrix is not yet properly computed for several sections!"}
             ELSE {})
            \cup
            (IF RFSectionParameters.n_rf > 1
             THEN {"is_in_separatrix will be calculated for the first harmonic only!"}
             ELSE {})
        counter == RFSectionParameters.counter[1]
        \* (np.pi - phi_s - phi_RF[0,counter]) / omega_RF[0,counter]: the
        \* programmes of the model make the quotient a whole number of ticks
        dt_sep == (HalfTurn - RFSectionParameters.phi_s[counter + 1]
                     - RFSectionParameters.phi_RF[1][counter + 1])
                  \div RFSectionParameters.omega_RF[1][counter + 1]
        Hsep == hamiltonian(GeneralParameters, RFSectionParameters, Beam,
                            dt_sep, 0, None)
        H == hamiltonian(GeneralParameters, RFSectionParameters, Beam,
                         dt, dE, None)
    IN  Returned(warned \cup Hsep.warned \cup H.warned,
                 np_fabs(H.value) < np_fabs(Hsep.value))

\* the unstable fixed point of the multi-harmonic separatrix (lines
\* 475-515): the waveform is scanned over one period T_RF0 of the first
\* RF system with a positive voltage, from one margin before to one margin
\* after it.  The code takes 1002 samples with a margin of T_RF0/1000
\* (almost one sampling step); the model samples every tick with a margin
\* of one tick.  The result is the time un/ud (ud > 0) or an exception.
find_ufp(voltage, omega_RF, phi_RF, n_rf, eta0, denergy) ==
    LET positive == {i \in 1..n_rf : voltage[i] > 0}
        \* np.min(np.where(voltage>0)[0])
        index_voltage == CHOOSE i \in positive : \A j \in positive : i <= j
        T_RF0 == (2 * HalfTurn) \div omega_RF[index_voltage]
        n == T_RF0 + 3
        \* np.linspace(...), and dt_ufp -= 0.5*T_RF0 below transition
        dt_ufp == [j \in 1..n |->
                     0 - (phi_RF[index_voltage] \div omega_RF[index_voltage])
                       - 1 + (j - 1)
                       - (IF eta0 < 0 THEN T_RF0 \div 2 ELSE 0)]
        RECURSIVE Wave(_, _)
        Wave(i, t) == IF i = 0 THEN 0
                      ELSE Wave(i - 1, t)
                           + voltage[i] * np_sin(omega_RF[i] * t + phi_RF[i])
        Search(Vtot) ==
            LET \* np.where(np.diff(np.sign(Vtot)))[0]
                zero_crossings ==
                    SortedSeq({j \in 1..(n - 1) :
                                 np_sign(Vtot[j + 1]) # np_sign(Vtot[j])}, n)
                RECURSIVE WalkDown(_), WalkUp(_)
                \* i = -1; while slope > 0: i -= 1   (0: IndexError)
                WalkDown(k) ==
                    IF k < 1 THEN 0
                    ELSE IF Vtot[zero_crossings[k] + 1]
                              - Vtot[zero_crossings[k]] > 0
                         THEN WalkDown(k - 1)
                         ELSE zero_crossings[k]
                \* i = 0; while slope < 0: i += 1    (0: IndexError)
                WalkUp(k) ==
                    IF k > Len(zero_crossings) THEN 0
                    ELSE IF Vtot[zero_crossings[k] + 1]
                              - Vtot[zero_crossings[k]] < 0
                         THEN WalkUp(k + 1)
                         ELSE zero_crossings[k]
                ind == IF eta0 < 0 THEN WalkDown(Len(zero_crossings))
                       ELSE WalkUp(1)
                \* dt_ufp[ind] + Vtot[ind]/(Vtot[ind] - Vtot[ind+1])
                \*                 * (dt_ufp[ind+1] - dt_ufp[ind])
                den == Vtot[ind] - Vtot[ind + 1]
                num == dt_ufp[ind] * den
                           + Vtot[ind] * (dt_ufp[ind + 1] - dt_ufp[ind])
            IN  IF ind = 0
                THEN [raised |-> "IndexError", ind |-> 0, un |-> 0, ud |-> 1,
                      zero_crossings |-> zero_crossings, Vtot |-> Vtot,
                      dt_ufp |-> dt_ufp]
                ELSE [raised |-> "none", ind |-> ind,
                      un |-> IF den < 0 THEN 0 - num ELSE num,
                      ud |-> np_fabs(den),
                      zero_crossings |-> zero_crossings, Vtot |-> Vtot,
                      dt_ufp |-> dt_ufp]
    IN  IF positive = {}
        THEN [raised |-> "ValueError", ind |-> 0, un |-> 0, ud |-> 1,
              zero_crossings |-> <<>>, Vtot |-> <<>>, dt_ufp |-> <<>>]
        ELSE CHOOSE r \in
                 {Search(Vtot) :
                    Vtot \in {[j \in 1..n |-> Wave(n_rf, dt_ufp[j]) - denergy]}}
                 : TRUE

\* separatrix(GeneralParameters, RFSectionParameters, dt, total_voltage)
\* for an array dt of times.  An entry of the single-harmonic result is
\* np.sqrt of beta_sq energy V0 / (pi eta0 h0) * bracket; the model returns
\* it in units in which pi h0 = 1/10000.  An entry of the multi-harmonic
\* result is np.sqrt of 2 beta_sq energy / (eta0 T0) * (Vtot + denergy
\* (dt_ufp - dt)); the model carries the sum as a multiple of
\* 1/(100 RadPerStep W), W the product of the angular frequencies.  The
\* slip factor of the model's programmes is +1 or -1, so that dividing by
\* eta0 is multiplying by it.
separatrix(GeneralParameters, RFSectionParameters, dt, total_voltage_) ==
    LET warned ==
            IF GeneralParameters.n_sections > 1
            THEN {"The separatrix is not yet properly computed for several sections!"}
            ELSE {}
        counter == RFSectionParameters.counter[1]
        n_rf == RFSectionParameters.n_rf
        voltage == [i \in 1..n_rf |->
                      GeneralParameters.charge
                          * RFSectionParameters.voltage[i][counter + 1]]
        omega_RF == [i \in 1..n_rf |->
                       RFSectionParameters.omega_RF[i][counter + 1]]
        phi_RF == [i \in 1..n_rf |->
                     RFSectionParameters.phi_RF[i][counter + 1]]
        eta0 == RFSectionParameters.eta_0[counter + 1]
        beta_sq == RFSectionParameters.beta[counter + 1]
                       * RFSectionParameters.beta[counter + 1]
        energy == RFSectionParameters.energy[counter + 1]
        T_RF == (2 * HalfTurn) \div omega_RF[1]
        \* the projection of the requested times (lines 445-449)
        dt_proj ==
            [j \in 1..Len(dt) |->
               IF eta0 < 0
               THEN time_modulo_ticks(dt[j],
                        (phi_RF[1] - HalfTurn) \div omega_RF[1], T_RF)
               ELSE IF eta0 > 0
               THEN time_modulo_ticks(dt[j], phi_RF[1] \div omega_RF[1], T_RF)
               ELSE dt[j]]
        \* ---- single-harmonic RF system ----
        h0 == RFSectionParameters.harmonic[1][counter + 1]
        V0 == IF total_voltage_ = None THEN voltage[1]
              ELSE total_voltage_[counter + 1]
        phi_s == RFSectionParameters.phi_s[counter + 1]
        SingleRadicand(t) ==
            LET phi_b == omega_RF[1] * t + phi_RF[1]
            IN  beta_sq * energy * V0 * eta0
                * (100 * ((0 - np_cos(phi_b)) - np_cos(phi_s))
                   + Rad(HalfTurn - phi_s - phi_b) * np_sin(phi_s))
        \* ---- multi-harmonic RF system ----
        E_increment == RFSectionParameters.E_increment
        \* try: E_increment[counter]   except: E_increment[-1]
        denergy == IF counter + 1 <= Len(E_increment)
                   THEN E_increment[counter + 1]
                   ELSE E_increment[Len(E_increment)]
        T0 == GeneralParameters.t_rev[counter + 1]
        RECURSIVE W(_)
        W(i) == IF i = 0 THEN 1 ELSE W(i - 1) * omega_RF[i]
        Multi(ufp) ==
            LET RECURSIVE Vtot(_, _)
                \* voltage[i]*(cos(omega_RF[i]*dt_ufp + phi_RF[i])
                \*             - cos(omega_RF[i]*dt + phi_RF[i]))/omega_RF[i]
                Vtot(i, t) ==
                    IF i = 0 THEN 0
                    ELSE Vtot(i - 1, t)
                         + voltage[i]
                           * (np_cos_frac(omega_RF[i] * ufp.un
                                            + phi_RF[i] * ufp.ud, ufp.ud)
                              - ufp.ud * np_cos(omega_RF[i] * t + phi_RF[i]))
                           * 100 * (W(n_rf) \div omega_RF[i])
                MultiRadicand(t) ==
                    ((eta0 * (Vtot(n_rf, t)
                              + denergy * (ufp.un - t * ufp.ud)
                                  * RadPerStep * W(n_rf)))
                     \div (T0 * ufp.ud)) * 2 * beta_sq * energy
                radicand == [j \in 1..Len(dt) |-> MultiRadicand(dt_proj[j])]
            IN  IF ufp.raised # "none"
                THEN [raised |-> ufp.raised, warned |-> warned,
                      value |-> None, radicand |-> <<>>, dt |-> dt_proj]
                ELSE [raised |-> "none", warned |-> warned,
                      value |-> [j \in 1..Len(dt) |-> np_sqrt(radicand[j])],
                      radicand |-> radicand, dt |-> dt_proj]
    IN  IF n_rf = 1
        THEN [raised |-> "none", warned |-> warned,
              value |-> [j \in 1..Len(dt) |->
                           np_sqrt(SingleRadicand(dt_proj[j]))],
              radicand |-> [j \in 1..Len(dt) |-> SingleRadicand(dt_proj[j])],
              dt |-> dt_proj]
        ELSE CHOOSE r \in
                 {Multi(ufp) :
                    ufp \in {find_ufp(voltage, omega_RF, phi_RF, n_rf, eta0,
                                      denergy)}} : TRUE

---------------------------------------------------------------------------
(* Callers of the RF formulas.  The RF programme has two turns: the first  *)
(* RF system runs at harmonic 1 and 1 step per tick in turn 0 and at       *)
(* harmonic 2 and 2 steps per tick in turn 1, the second system at twice   *)
(* that; phases are even numbers of steps, so that the times t_RF, T_RF    *)
(* and dt_sep of the code are whole ticks.  The slip factor changes sign   *)
(* between the two turns.                                                  *)

\* the first n rows of a programme
Rows(n, m) == [i \in 1..n |-> m[i]]

SynchronousPhases == {-2, 0, 2}

RFPhases == {0, 2}

SlipFactors == {<<-1, 1>>, <<1, -1>>}

EnergyGains == {<<0>>, <<50>>, <<400>>}

SuppliedVoltages == {None, <<3, 3>>}

RFProgrammes ==
    {[n_rf |-> n, counter |-> <<turn>>,
      harmonic |-> Rows(n, <<<<1, 2>>, <<2, 4>>>>),
      omega_RF |-> Rows(n, <<<<1, 2>>, <<2, 4>>>>),
      voltage |-> Rows(n, <<<<1, 2>>, <<2, 2>>>>),
      phi_RF |-> Rows(n, <<<<r, r>>, <<HalfTurn, HalfTurn>>>>),
      phi_s |-> <<s, s>>, eta_0 |-> e, charge |-> 1,
      beta |-> <<1, 1>>, energy |-> <<1, 2>>, E_increment |-> d] :
        n \in 1..2, turn \in 0..1, r \in RFPhases,
        s \in SynchronousPhases, e \in SlipFactors, d \in EnergyGains}

RingParameters ==
    {[n_sections |-> k, charge |-> 1, t_rev |-> <<2 * HalfTurn, 2 * HalfTurn>>] :
        k \in 1..2}

\* the sections total_voltage is given: first-harmonic voltage and phase
Sections == {[voltage |-> 1, phi_RF |-> 0], [voltage |-> 2, phi_RF |-> 3],
             [voltage |-> 1, phi_RF |-> HalfTurn]}

Times == (0 - MaxDt)..MaxDt

\* the arrays of requested times of separatrix (up to two times)
TimeArrays == {<<>>} \cup {<<t>> : t \in Times} \cup (Times \X Times)

\* no call yet
NoResult == [raised |-> "none", warned |-> {}, value |-> None]

\* no caller outside the RF formulas
NotRF ==
    /\ WellIdle /\ ModIdle /\ SFDIdle /\ TrackerIdle
    /\ MovingAverageIdle /\ CombineIdle /\ PreprocessIdle /\ OffsetIdle

RFInit ==
    /\ NotRF
    /\ warnings_filters = <<>>
    /\ rf_done = FALSE
    /\ rf_result = NoResult
    /\ beam = [beta |-> 1, energy |-> 2]
    /\ \/ /\ rf_fn = "total_voltage"
          /\ general_params = None
          /\ rf_section = None
          /\ \E l \in {<<a>> : a \in Sections} \cup (Sections \X Sections) :
             \E harmonic \in {"first", "all", "second"} :
                 rf_args = <<l, harmonic>>
       \/ /\ rf_fn \in {"hamiltonian", "is_in_separatrix"}
          /\ general_params \in RingParameters
          /\ rf_section \in RFProgrammes
          /\ rf_args \in Times \X ((0 - MaxDE)..MaxDE) \X SuppliedVoltages
       \/ /\ rf_fn = "separatrix"
          /\ general_params \in RingParameters
          /\ rf_section \in RFProgrammes
          /\ rf_args \in TimeArrays \X SuppliedVoltages

Call_total_voltage ==
    /\ rf_fn = "total_voltage"
    /\ ~rf_done
    /\ rf_done' = TRUE
    /\ rf_result' = total_voltage(rf_args[1], rf_args[2])
    \* warnings.filterwarnings("once") of the unrecognised choice
    /\ warnings_filters' = IF rf_args[2] \in {"first", "all"}
                           THEN warnings_filters
                           ELSE filterwarnings(warnings_filters, "once")
    /\ UNCHANGED <<general_params, rf_section, beam, rf_fn, rf_args,
                   not_rf_vars>>

Call_hamiltonian ==
    /\ rf_fn = "hamiltonian"
    /\ ~rf_done
    /\ rf_done' = TRUE
    /\ rf_result' = hamiltonian(general_params, rf_section, beam,
                                rf_args[1], rf_args[2], rf_args[3])
    /\ warnings_filters' = filterwarnings(warnings_filters, "once")
    /\ UNCHANGED <<general_params, rf_section, beam, rf_fn, rf_args,
                   not_rf_vars>>

Call_is_in_separatrix ==
    /\ rf_fn = "is_in_separatrix"
    /\ ~rf_done
    /\ rf_done' = TRUE
    /\ rf_result' = is_in_separatrix(general_params, rf_section, beam,
                                     rf_args[1], rf_args[2], rf_args[3])
    /\ warnings_filters' = filterwarnings(warnings_filters, "once")
    /\ UNCHANGED <<general_params, rf_section, beam, rf_fn, rf_args,
                   not_rf_vars>>

Call_separatrix ==
    /\ rf_fn = "separatrix"
    /\ ~rf_done
    /\ rf_done' = TRUE
    /\ rf_result' = separatrix(general_params, rf_section,
                               rf_args[1], rf_args[2])
    /\ warnings_filters' = filterwarnings(warnings_filters, "once")
    /\ UNCHANGED <<general_params, rf_section, beam, rf_fn, rf_args,
                   not_rf_vars>>

RFNext ==
    \/ Call_total_voltage
    \/ Call_hamiltonian
    \/ Call_is_in_separatrix
    \/ Call_separatrix

SpecRF == RFInit /\ [][RFNext]_vars

---------------------------------------------------------------------------
(* Properties of the RF formulas (checked under SpecRF).                   *)

\* the call of fn has been made
RFCalled(fn) == rf_done /\ rf_fn = fn

\* C11: total_voltage called with a harmonic mode name other than 'first'
\* or 'all' raises: the call does not return to the caller.
C11_UnsupportedModeRaises ==
    (RFCalled("total_voltage") /\ rf_args[2] \notin {"first", "all"}) =>
        rf_result.raised # "none"

\* the RF programme cut down to its first RF system, and a ring of one
\* section
FirstHarmonicOnly(p) ==
    [p EXCEPT !.n_rf = 1, !.harmonic = Rows(1, @), !.omega_RF = Rows(1, @),
              !.voltage = Rows(1, @), !.phi_RF = Rows(1, @)]

SingleSection(g) == [g EXCEPT !.n_sections = 1]

\* C12: hamiltonian and is_in_separatrix called with more than one ring
\* section or more than one RF harmonic do not raise; they warn and return
\* the value the same call returns for one section and the first RF system
\* alone.
C12_FirstHarmonicOnly ==
    (/\ rf_done
     /\ rf_fn \in {"hamiltonian", "is_in_separatrix"}
     /\ (general_params.n_sections > 1 \/ rf_section.n_rf > 1)) =>
        /\ rf_result.raised = "none"
        /\ rf_result.warned # {}
        /\ rf_result.value =
             (IF rf_fn = "hamiltonian"
              THEN hamiltonian(SingleSection(general_params),
                               FirstHarmonicOnly(rf_section), beam,
                               rf_args[1], rf_args[2], rf_args[3])
              ELSE is_in_separatrix(SingleSection(general_params),
                                    FirstHarmonicOnly(rf_section), beam,
                                    rf_args[1], rf_args[2], rf_args[3])).value

\* a two-harmonic, two-section call of hamiltonian whose value the second
\* RF system would have changed
C12_Witness ==
    /\ RFCalled("hamiltonian")
    /\ general_params.n_sections > 1
    /\ rf_section.n_rf > 1
    /\ rf_result.value #
         single_rf_hamiltonian(2, rf_section, beam,
                               rf_args[1], rf_args[2], rf_args[3])

\* a two-harmonic call of is_in_separatrix that finds the point inside
C12_WitnessInside ==
    /\ RFCalled("is_in_separatrix")
    /\ rf_section.n_rf > 1
    /\ rf_result.value = TRUE

\* dt_sep = (pi - phi_s - phi_RF[0]) / omega_RF[0] at the current turn
SeparatrixTime ==
    LET counter == rf_section.counter[1]
    IN  (HalfTurn - rf_section.phi_s[counter + 1]
           - rf_section.phi_RF[1][counter + 1])
        \div rf_section.omega_RF[1][counter + 1]

\* C13: is_in_separatrix(dt, dE, total_voltage) is true exactly when
\* |hamiltonian(dt, dE, total_voltage)| < |hamiltonian(dt_sep, 0,
\* total_voltage)|, a supplied total voltage being the voltage of both
\* evaluations.
C13_AgreesWithDirectCheck ==
    RFCalled("is_in_separatrix") =>
        (rf_result.value <=>
           np_fabs(hamiltonian(general_params, rf_section, beam,
                               rf_args[1], rf_args[2], rf_args[3]).value)
           < np_fabs(hamiltonian(general_params, rf_section, beam,
                                 SeparatrixTime, 0, rf_args[3]).value))

\* the RF phase of the first RF system at time t of the current turn
RFPhaseAt(t) ==
    LET counter == rf_section.counter[1]
    IN  rf_section.omega_RF[1][counter + 1] * t
        + rf_section.phi_RF[1][counter + 1]

CurrentPhiS == rf_section.phi_s[rf_section.counter[1] + 1]

\* a single-harmonic call of separatrix has returned
SingleSeparatrix ==
    /\ RFCalled("separatrix")
    /\ rf_section.n_rf = 1
    /\ rf_result.raised = "none"

\* the single-harmonic separatrix returns 0 at the time whose RF phase is p
ZeroAtPhase(p) ==
    SingleSeparatrix =>
        \A j \in 1..Len(rf_args[1]) :
            RFPhaseAt(rf_args[1][j]) = p => rf_result.value[j] = 0

C14_ZeroAtSynchronousPhase == ZeroAtPhase(CurrentPhiS)

C14_ZeroAtUnstableFixedPoint == ZeroAtPhase(HalfTurn - CurrentPhiS)

\* C14: the single-harmonic separatrix (n_rf = 1) returns 0 at the time
\* whose RF phase equals the synchronous phase phi_s, and 0 at the time
\* whose RF phase equals the unstable fixed point pi - phi_s.
C14_ZeroAtBothFixedPoints ==
    C14_ZeroAtSynchronousPhase /\ C14_ZeroAtUnstableFixedPoint

\* C15: separatrix returns one entry per requested time; an entry whose
\* radicand is negative is NaN (not 0) and raises nothing: the call raises
\* exactly when the same call without requested times does; and every
\* entry is the one a call for that time alone returns.
C15_InvalidTimesAreNaN ==
    RFCalled("separatrix") =>
        /\ rf_result.raised =
             separatrix(general_params, rf_section, <<>>, rf_args[2]).raised
        /\ rf_result.raised = "none" =>
             /\ Len(rf_result.value) = Len(rf_args[1])
             /\ \A j \in 1..Len(rf_args[1]) :
                  /\ rf_result.radicand[j] < 0 <=> rf_result.value[j] = NaN
                  /\ rf_result.radicand[j] < 0 => rf_result.value[j] # 0
                  /\ rf_result.value[j] =
                       separatrix(general_params, rf_section,
                                  <<rf_args[1][j]>>, rf_args[2]).value[1]

\* a multi-harmonic call with an invalid time next to a valid one
C15_Witness ==
    /\ RFCalled("separatrix")
    /\ rf_section.n_rf > 1
    /\ rf_result.raised = "none"
    /\ Len(rf_args[1]) = 2
    /\ rf_result.value[1] = NaN
    /\ rf_result.value[2] > 0

\* the same for a single-harmonic call
C15_WitnessSingle ==
    /\ SingleSeparatrix
    /\ Len(rf_args[1]) = 2
    /\ rf_result.value[1] > 0
    /\ rf_result.value[2] = NaN

---------------------------------------------------------------------------
(* synchrotron_frequency_distribution, from the potential well cut around  *)
(* the bucket (lines 89-173).  The well is integer valued on a uniform     *)
(* time grid with an even step, so every array is carried exactly: the     *)
(* smoothed arrays as numerators over smoothOption, a gradient as the      *)
(* numerator of np.gradient over 2, a frequency dH/dJ/(2 pi) as the pair   *)
(* of the two gradients it is the quotient of.  The potential well the     *)
(* code regenerates for each level (FullRingAndRF.potential_well_          *)
(* generation) is taken at the samples of the cut well.                    *)

\* a[::-1], as np.fliplr([a])[0]
Reverse(a) == [i \in 1..Len(a) |-> a[Len(a) + 1 - i]]

\* a[0:stop] of Python, stop possibly negative
SliceTo(a, stop) ==
    LET n == Len(a)
        last == IF stop < 0 THEN (IF n + stop < 0 THEN 0 ELSE n + stop)
                ELSE IF stop > n THEN n ELSE stop
    IN  SubSeq(a, 1, last)

RECURSIVE SumRange(_, _, _)
SumRange(a, lo, hi) == IF lo > hi THEN 0 ELSE a[lo] + SumRange(a, lo + 1, hi)

\* np.convolve(a, np.ones(w)/w, mode='valid'), as numerators over w: the
\* sums of the max(n,w) - min(n,w) + 1 positions in which the shorter
\* array lies inside the longer one
np_convolve_valid(a, w) ==
    LET n == Len(a)
    IN  IF n >= w
        THEN [k \in 1..(n - w + 1) |-> SumRange(a, k, k + w - 1)]
        ELSE [k \in 1..(w - n + 1) |-> SumRange(a, 1, n)]

\* 2 np.gradient(a) for len(a) >= 2: one-sided differences at the two
\* ends, central differences inside
np_gradient(a) ==
    LET n == Len(a)
    IN  [i \in 1..n |-> IF i = 1 THEN 2 * (a[2] - a[1])
                        ELSE IF i = n THEN 2 * (a[n] - a[n - 1])
                        ELSE a[i + 1] - a[i - 1]]

\* J_array_dE0 (lines 93-122), as the number 2 pi J / dx: for the level of
\* sample i, the trapezoidal sum of the dE trajectory sqrt(level - well)
\* (in tenths, NaN entries set to 0) between the first and the last sample
\* not above the level
action_array(well) ==
    LET n == Len(well)
        Level(i) ==
            LET time_indexes == {k \in 1..n : well[k] <= well[i]}
                left == CHOOSE k \in time_indexes :
                            \A m \in time_indexes : k <= m
                right == CHOOSE k \in time_indexes :
                            \A m \in time_indexes : m <= k
                dE_trajectory ==
                    [k \in 1..n |-> IF well[i] - well[k] < 0 THEN 0
                                    ELSE np_sqrt(100 * (well[i] - well[k]))]
                RECURSIVE Trapz(_)
                Trapz(k) == IF k >= right THEN 0
                            ELSE dE_trajectory[k] + dE_trajectory[k + 1]
                                 + Trapz(k + 1)
            IN  Trapz(left)
    IN  [i \in 1..n |-> Level(i)]

\* the permutations H_array.argsort() may return: every order of the
\* indices in which H is non-decreasing (the order of equal entries is
\* not specified for the default sort)
RECURSIVE ArgSorts(_, _)
ArgSorts(H, rest) ==
    IF rest = {} THEN {<<>>}
    ELSE UNION {{<<i>> \o p : p \in ArgSorts(H, rest \ {i})} :
                  i \in {k \in rest : \A m \in rest : H[k] <= H[m]}}

\* a mutant of merged_H_array: H of the left branch is not reversed
merged_H_array_unflipped(H_array_left, H_array_right) ==
    H_array_left \o H_array_right

\* np.concatenate((np.fliplr([H_array_left])[0], H_array_right))
merged_H_array(H_array_left, H_array_right) ==
    Reverse(H_array_left) \o H_array_right

\* the call raised exc
SfdRaised(exc) == [raised |-> exc]

\* synchrotron_frequency_distribution for the cut well (time_coord_sep,
\* potential_well_sep) and smoothOption (None, or <<w>> for the width w):
\* the set of the outcomes the call can have, one for each order argsort
\* may return
synchrotron_frequency_distribution(time_coord_sep, well, smoothOption) ==
    LET n == Len(well)
        \* potential_well_sep - np.min(potential_well_sep)
        potential_well_sep_ == [i \in 1..n |-> well[i] - ArrayMin(well)]
        \* np.where(potential_well_sep == np.min(potential_well_sep))[0]
        synchronous_phase_index ==
            SortedSeq({i \in 1..n : potential_well_sep_[i] = 0}, n)
        J_array_dE0 == action_array(potential_well_sep_)
        first == synchronous_phase_index[1]
        from == IF Len(synchronous_phase_index) > 1
                THEN synchronous_phase_index[2] ELSE first
        \* the two branches before smoothing (lines 127-145)
        H_left0 == SubSeq(potential_well_sep_, 1, first)
        H_right0 == SubSeq(potential_well_sep_, from, n)
        J_left0 == SubSeq(J_array_dE0, 1, first)
        J_right0 == SubSeq(J_array_dE0, from, n)
        dt_left0 == [i \in 1..first |->
                        time_coord_sep[first] - time_coord_sep[i]]
        dt_right0 == [i \in 1..(n - from + 1) |->
                         time_coord_sep[from + i - 1] - time_coord_sep[from]]
        \* np.mean(time_coord_sep[synchronous_phase_index]), or the array
        \* time_coord_sep[synchronous_phase_index] of one element: the sum
        \* of the times and their number
        synchronous_time ==
            <<SumRange([k \in 1..Len(synchronous_phase_index) |->
                          time_coord_sep[synchronous_phase_index[k]]],
                       1, Len(synchronous_phase_index)),
              Len(synchronous_phase_index)>>
        \* delta_time + (smoothOption-1)*(delta_time[1]-delta_time[0])/2,
        \* cut to [0:len(delta_time)-smoothOption+1]
        SmoothTime(delta_time) ==
            SliceTo([i \in 1..Len(delta_time) |->
                       delta_time[i]
                       + ((smoothOption[1] - 1)
                          * (delta_time[2] - delta_time[1])) \div 2],
                    Len(delta_time) - smoothOption[1] + 1)
        smooth == smoothOption # None
        width == smoothOption[1]
        H_array_left == IF smooth THEN np_convolve_valid(H_left0, width)
                        ELSE H_left0
        J_array_left == IF smooth THEN np_convolve_valid(J_left0, width)
                        ELSE J_left0
        H_array_right == IF smooth
                         THEN np_convolve_valid(H_right0, width)
                         ELSE H_right0
        J_array_right == IF smooth
                         THEN np_convolve_valid(J_right0, width)
                         ELSE J_right0
        Frequencies(H, J) ==
            LET gH == np_gradient(H)
                gJ == np_gradient(J)
            IN  [i \in 1..Len(H) |-> <<gH[i], gJ[i]>>]
        Outcomes(Hl, Jl, Hr, Jr) ==
            LET delta_time_left ==
                    Reverse(IF smooth THEN SmoothTime(dt_left0) ELSE dt_left0)
                delta_time_right ==
                    IF smooth THEN SmoothTime(dt_right0) ELSE dt_right0
                sync_freq_distribution_left == Reverse(Frequencies(Hl, Jl))
                sync_freq_distribution_right == Frequencies(Hr, Jr)
                emittance_array_left == Reverse(Jl)
                emittance_array_right == Jr
                sync_freq_distribution ==
                    sync_freq_distribution_left \o sync_freq_distribution_right
                H_array == merged_H_array(Hl, Hr)
            IN  {[raised |-> "none",
                  sync_freq_distribution_left |-> sync_freq_distribution_left,
                  sync_freq_distribution_right |-> sync_freq_distribution_right,
                  emittance_array_left |-> emittance_array_left,
                  emittance_array_right |-> emittance_array_right,
                  delta_time_left |-> delta_time_left,
                  delta_time_right |-> delta_time_right,
                  synchronous_time |-> synchronous_time,
                  branch_H_left |-> Reverse(Hl),
                  branch_H_right |-> Hr,
                  \* sync_freq_distribution[H_array.argsort()]
                  sync_freq_distribution |->
                      [k \in 1..Len(order) |-> sync_freq_distribution[order[k]]],
                  \* H_array.sort()
                  H_array |-> [k \in 1..Len(order) |-> H_array[order[k]]]] :
                 order \in ArgSorts(H_array, 1..Len(H_array))}
    IN  \* np.min of an empty array
        IF n = 0 THEN {SfdRaised("ValueError")}
        \* delta_time[1] of a branch of one sample
        ELSE IF smooth /\ (first < 2 \/ n - from + 1 < 2)
        THEN {SfdRaised("IndexError")}
        \* np.gradient of an array of fewer than two elements
        ELSE IF Len(H_array_left) < 2 \/ Len(H_array_right) < 2
        THEN {SfdRaised("ValueError")}
        ELSE UNION {Outcomes(Hl, Jl, Hr, Jr) :
                        Hl \in {H_array_left}, Jl \in {J_array_left},
                        Hr \in {H_array_right}, Jr \in {J_array_right}}

\* what the loop of lines 97-122 leaves on FullRingAndRF: the potential
\* well on the frame [left_time, right_time] of the last level, which
\* potential_well_generation stores in potential_well_coordinates and
\* potential_well (of the coordinates the ends are kept)
ring_well_after(time_coord_sep, well) ==
    LET n == Len(well)
        time_indexes == {k \in 1..n : well[k] <= well[n]}
        left == CHOOSE k \in time_indexes : \A m \in time_indexes : k <= m
        right == CHOOSE k \in time_indexes : \A m \in time_indexes : m <= k
    IN  [potential_well_coordinates |->
             <<time_coord_sep[left], time_coord_sep[right]>>]

\* the filters after synchrotron_frequency_distribution: those of
\* potential_well_cut (line 87), then "ignore" (line 95) and "default"
\* (line 124)
sfd_filters(filters) ==
    filterwarnings(filterwarnings(minmax_location_filters(filters, "none"),
                                  "ignore"), "default")

\* the largest number of samples of the cut well
MaxSamples == 5

\* the largest smoothing width
MaxSmooth == 3

\* the cut wells: up to MaxSamples samples on a uniform grid of even step
CutWells == UNION {[1..n -> 0..MaxVal] : n \in 1..MaxSamples}

\* the values of smoothOption
SmoothOptions == {None} \cup {<<w>> : w \in 1..MaxSmooth}

\* no caller outside synchrotron_frequency_distribution
NotSFD ==
    /\ WellIdle /\ ModIdle /\ RFIdle /\ TrackerIdle
    /\ MovingAverageIdle /\ CombineIdle /\ PreprocessIdle /\ OffsetIdle

SFDInit ==
    /\ NotSFD
    /\ sfd_done = FALSE
    /\ sfd_result = <<>>
    /\ sfd_well \in CutWells
    /\ \E x0 \in TimeStarts : \E h \in {s \in TimeSteps : s % 2 = 0} :
           sfd_time = Grid(Len(sfd_well), x0, h)
    /\ sfd_smooth \in SmoothOptions
    \* the well a caller has generated over the whole cut before the call
    /\ sfd_ring_well = [potential_well_coordinates |->
                            <<sfd_time[1], sfd_time[Len(sfd_time)]>>]
    /\ warnings_filters \in InitialFilters

Call_synchrotron_frequency_distribution ==
    /\ ~sfd_done
    /\ sfd_well # <<>>
    /\ sfd_done' = TRUE
    /\ sfd_result' \in
           synchrotron_frequency_distribution(sfd_time, sfd_well, sfd_smooth)
    /\ sfd_ring_well' = ring_well_after(sfd_time, sfd_well)
    /\ warnings_filters' = sfd_filters(warnings_filters)
    /\ UNCHANGED <<sfd_time, sfd_well, sfd_smooth, not_sfd_vars>>

SFDNext == Call_synchrotron_frequency_distribution

SpecSFD == SFDInit /\ [][SFDNext]_vars

---------------------------------------------------------------------------
(* Properties of synchrotron_frequency_distribution                        *)

\* the call has returned
SfdReturned == sfd_done /\ sfd_result.raised = "none"

\* the number of samples of the two branches before smoothing
BranchLength ==
    LET zeros == {i \in 1..Len(sfd_well) : sfd_well[i] = ArrayMin(sfd_well)}
        index == SortedSeq(zeros, Len(sfd_well))
    IN  [left |-> index[1],
         right |-> Len(sfd_well) + 1
                   - (IF Len(index) > 1 THEN index[2] ELSE index[1])]

\* the (H, frequency) entries of the two branches, as returned
BranchEntries ==
    [k \in 1..Len(sfd_result.branch_H_left) |->
        <<sfd_result.branch_H_left[k],
          sfd_result.sync_freq_distribution_left[k]>>]
    \o [k \in 1..Len(sfd_result.branch_H_right) |->
          <<sfd_result.branch_H_right[k],
            sfd_result.sync_freq_distribution_right[k]>>]

\* the (H, frequency) entries of the merged table
MergedEntries ==
    [k \in 1..Len(sfd_result.H_array) |->
        <<sfd_result.H_array[k], sfd_result.sync_freq_distribution[k]>>]

\* how often the entry e occurs in the sequence s
Occurrences(s, e) == Cardinality({k \in 1..Len(s) : s[k] = e})

\* C16: the merged table is non-decreasing in H, and its (H, frequency)
\* entries are exactly the entries of the samples of the two branches, each
\* as often as it occurs there
C16_MergedTableSortedAndPaired ==
    SfdReturned =>
        /\ \A k \in 1..(Len(sfd_result.H_array) - 1) :
               sfd_result.H_array[k] <= sfd_result.H_array[k + 1]
        /\ Len(MergedEntries) = Len(BranchEntries)
        /\ \A k \in 1..Len(BranchEntries) :
               Occurrences(MergedEntries, BranchEntries[k])
                   = Occurrences(BranchEntries, BranchEntries[k])

\* a returned call whose left branch has samples of different H and of
\* different frequency, so that reversing it matters
C16_Witness ==
    /\ SfdReturned
    /\ Len(sfd_result.branch_H_left) >= 2
    /\ sfd_result.branch_H_left[1] # sfd_result.branch_H_left[2]
    /\ sfd_result.sync_freq_distribution_left[1]
           # sfd_result.sync_freq_distribution_left[2]
    /\ Len(sfd_result.branch_H_right) >= 2

\* a returned call with smoothing whose left branch keeps samples of
\* different H
C16_WitnessSmoothed ==
    /\ SfdReturned
    /\ sfd_smooth # None
    /\ sfd_smooth[1] >= 2
    /\ Len(sfd_result.branch_H_left) = BranchLength.left - (sfd_smooth[1] - 1)
    /\ sfd_result.branch_H_left[1] # sfd_result.branch_H_left[2]

\* C17: a returned call with smoothing width w gives, for each branch of n
\* samples, a frequency array, an emittance array and a delta-time array
\* of n - (w - 1) entries
C17_SmoothingShortensBranches ==
    (SfdReturned /\ sfd_smooth # None) =>
        LET w == sfd_smooth[1]
        IN  /\ Len(sfd_result.sync_freq_distribution_left)
                   = BranchLength.left - (w - 1)
            /\ Len(sfd_result.emittance_array_left)
                   = BranchLength.left - (w - 1)
            /\ Len(sfd_result.delta_time_left) = BranchLength.left - (w - 1)
            /\ Len(sfd_result.sync_freq_distribution_right)
                   = BranchLength.right - (w - 1)
            /\ Len(sfd_result.emittance_array_right)
                   = BranchLength.right - (w - 1)
            /\ Len(sfd_result.delta_time_right)
                   = BranchLength.right - (w - 1)

---------------------------------------------------------------------------
(* synchrotron_frequency_tracker.  Coordinates are floats (in quanta, as   *)
(* for the normalisation helpers); a history is a sequence of rows, row    *)
(* r + 1 of the model being row r of the code.  The ring the tracker       *)
(* delegates to and the spectrum of a series are outside this file: the    *)
(* ring is a map of the ensemble chosen by its caller, and of a spectrum   *)
(* only what the code's indexing depends on is kept.                       *)

\* the largest number of probe particles
MaxParticles == 3

\* the largest n_turns
MaxTurns == 2

\* scipy.constants.c, in units in which it is 1.0
c == One

\* self.Beam.ring_radius/(self.Beam.beta*c)
time_per_radian(Beam_) == FDiv(Beam_.ring_radius, FMul(Beam_.beta, c))

\* np.linspace(start, stop, num) for num >= 1: start + i*step, the last
\* sample set to stop
np_linspace(start, stop, num) ==
    IF num = 1 THEN <<start>>
    ELSE LET step == FDiv(FSub(stop, start), (num - 1) * One)
         IN  [i \in 1..num |-> IF i = num THEN stop
                               ELSE FAdd(start, FMul((i - 1) * One, step))]

\* np.zeros((rows, columns))
np_zeros(rows, columns) == [r \in 1..rows |-> [p \in 1..columns |-> 0]]

\* self.Beam.dt / (self.Beam.ring_radius/(self.Beam.beta*c))
theta_of(Beam_) ==
    [p \in 1..Len(Beam_.dt) |-> FDiv(Beam_.dt[p], time_per_radian(Beam_))]

\* Beam(GeneralParameters, n_macroparticles, intensity): the ensemble takes
\* ring_radius and beta from the ring parameters
NewBeam(GeneralParameters, n_macroparticles) ==
    [ring_radius |-> GeneralParameters.ring_radius,
     beta |-> GeneralParameters.beta,
     dt |-> [p \in 1..n_macroparticles |-> 0],
     dE |-> [p \in 1..n_macroparticles |-> 0]]

\* the outcome of a method: the exception raised ("none": it returned) and
\* the tracker as the method leaves it
TrackerOutcome(exc, self) == [raised |-> exc, self |-> self]

\* the outcome of a method that uses the collaborators: the heap of the
\* objects as the method leaves it as well
TrackerEffect(exc, self, heap) == [raised |-> exc, self |-> self, heap |-> heap]

\* no object (None)
NoObject == "None"

\* copy.deepcopy(FullRingAndRF): a new object "ring_copy" with the state of
\* the object copied
deepcopy(heap, FullRingAndRF_) ==
    [id \in DOMAIN heap \cup {"ring_copy"} |->
        IF id = "ring_copy" THEN heap[FullRingAndRF_] ELSE heap[id]]

\* FullRingAndRF.track() on the ring object: its turn state advances by
\* one turn
ring_advance(heap, FullRingAndRF_) ==
    [heap EXCEPT ![FullRingAndRF_].turn = @ + 1]

\* TotalInducedVoltage.track_ghosts_particles(Beam) on the object: the
\* call is made on it
ghosts_tracked(heap, TotalInducedVoltage_) ==
    [heap EXCEPT ![TotalInducedVoltage_].ghost_calls = @ + 1]

\* what track_ghosts_particles does to the probes: a kick by the induced
\* voltage
track_ghosts_particles(Beam_) ==
    [Beam_ EXCEPT !.dE = [p \in 1..Len(Beam_.dE) |->
                             FSub(Beam_.dE[p], One \div 4)]]

\* synchrotron_frequency_tracker.__init__
synchrotron_frequency_tracker(heap, GeneralParameters, n_macroparticles, theta_coordinate_range, FullRingAndRF_, TotalInducedVoltage_) ==
    LET Beam0 == NewBeam(GeneralParameters, n_macroparticles)
        coordinates ==
            IF Len(theta_coordinate_range) = 2
            THEN np_linspace(theta_coordinate_range[1],
                             theta_coordinate_range[2], n_macroparticles)
            ELSE theta_coordinate_range
        Beam1 == [Beam0 EXCEPT
                    !.dt = [p \in 1..n_macroparticles |->
                               FMul(coordinates[p], time_per_radian(Beam0))],
                    !.dE = [p \in 1..n_macroparticles |-> 0]]
        nTurns == GeneralParameters.n_turns + 1
        zeros == np_zeros(nTurns, n_macroparticles)
    IN  IF /\ Len(theta_coordinate_range) # 2
           /\ Len(theta_coordinate_range) # n_macroparticles
        THEN TrackerEffect("RuntimeError", None,
                           deepcopy(heap, FullRingAndRF_))
        ELSE TrackerEffect("none",
                 [n_macroparticles |-> n_macroparticles,
                  FullRingAndRF |-> "ring_copy",
                  TotalInducedVoltage |-> TotalInducedVoltage_,
                  Beam |-> Beam1,
                  nTurns |-> nTurns,
                  theta_save |-> [zeros EXCEPT ![1] = theta_of(Beam1)],
                  dE_save |-> [zeros EXCEPT ![1] = Beam1.dE],
                  counter |-> 0,
                  frequency_theta_save |-> None,
                  frequency_dE_save |-> None,
                  max_theta_save |-> None,
                  min_theta_save |-> None],
                 deepcopy(heap, FullRingAndRF_))

\* self.FullRingAndRF.track() on the ensemble: a kick of strength g towards
\* the synchronous particle followed by a drift
ring_track(Beam_, g) ==
    LET dE == [p \in 1..Len(Beam_.dE) |->
                  FSub(Beam_.dE[p], np_sign(Beam_.dt[p]) * g)]
    IN  [Beam_ EXCEPT
           !.dE = dE,
           !.dt = [p \in 1..Len(Beam_.dt) |->
                      FAdd(Beam_.dt[p], FMul(One \div 4, dE[p]))]]

\* the ensemble and the collaborators after lines 278-281 of track
tracked_turn(self, heap, g) ==
    LET Beam1 == ring_track(self.Beam, g)
        heap1 == ring_advance(heap, self.FullRingAndRF)
    IN  IF self.TotalInducedVoltage # NoObject
        THEN [Beam |-> track_ghosts_particles(Beam1),
              heap |-> ghosts_tracked(heap1, self.TotalInducedVoltage)]
        ELSE [Beam |-> Beam1, heap |-> heap1]

\* a mutant of track: the row is written before the counter advances
track_save_before_increment(self, heap, g) ==
    LET turn == tracked_turn(self, heap, g)
    IN  TrackerEffect("none",
            [self EXCEPT
               !.Beam = turn.Beam,
               !.theta_save[self.counter + 1] = theta_of(turn.Beam),
               !.dE_save[self.counter + 1] = turn.Beam.dE,
               !.counter = self.counter + 1],
            turn.heap)

\* synchrotron_frequency_tracker.track, the ring applying the kick g: the
\* ring is tracked and the counter advanced before the row is written, so
\* a call on a full history raises IndexError after both
track(self, heap, g) ==
    LET turn == tracked_turn(self, heap, g)
        counter1 == self.counter + 1
    IN  IF counter1 >= self.nTurns
        THEN TrackerEffect("IndexError",
                 [self EXCEPT !.Beam = turn.Beam, !.counter = counter1],
                 turn.heap)
        ELSE TrackerEffect("none",
                 [self EXCEPT
                    !.Beam = turn.Beam,
                    !.counter = counter1,
                    !.theta_save[counter1 + 1] = theta_of(turn.Beam),
                    !.dE_save[counter1 + 1] = turn.Beam.dE],
                 turn.heap)

\* the frequency of the bin of largest magnitude of the spectrum of a
\* series that is not constant: a positive entry of frequency_array (the
\* mean is subtracted, so the bin of frequency 0 is not the largest)
PeakFrequency == 1

\* self.theta_save[start_turn:end_turn, indexParticle]
Column(save, start_turn, end_turn, indexParticle) ==
    [r \in 1..(Len(SliceTo(save, end_turn)) - start_turn) |->
        save[start_turn + r][indexParticle]]

\* the series has one value only: its spectrum without the mean is 0 in
\* every bin, and the mask fft == np.max(fft) selects all of frequency_array
IsConstant(series) == \A r \in 1..Len(series) : series[r] = series[1]

\* synchrotron_frequency_tracker.frequency_calculation with start_turn (0
\* for None) and end_turn = None
frequency_calculation(self, start_turn) ==
    LET n == self.n_macroparticles
        max_theta_range == ArrayMax(self.theta_save[1])
        min_theta_range == ArrayMin(self.theta_save[1])
        end_turn == self.nTurns + 1
        theta_series(p) == Column(self.theta_save, start_turn, end_turn, p)
        dE_series(p) == Column(self.dE_save, start_turn, end_turn, p)
        \* the test of line 335
        analysed(p) == /\ ArrayMax(theta_series(p)) < max_theta_range
                       /\ ArrayMin(theta_series(p)) > min_theta_range
        \* assigning an array of several frequencies to one entry raises
        failing == {p \in 1..n : analysed(p) /\ (IsConstant(theta_series(p))
                                                 \/ IsConstant(dE_series(p)))}
        stop == IF failing = {} THEN n + 1
                ELSE CHOOSE p \in failing : \A q \in failing : p <= q
        after == [self EXCEPT
            !.max_theta_save =
                [p \in 1..n |-> IF p <= stop THEN ArrayMax(theta_series(p))
                                ELSE 0],
            !.min_theta_save =
                [p \in 1..n |-> IF p <= stop THEN ArrayMin(theta_series(p))
                                ELSE 0],
            !.frequency_theta_save =
                [p \in 1..n |->
                    IF p <= stop /\ analysed(p)
                       /\ ~IsConstant(theta_series(p))
                    THEN PeakFrequency ELSE 0],
            !.frequency_dE_save =
                [p \in 1..n |->
                    IF p < stop /\ analysed(p) THEN PeakFrequency ELSE 0]]
    IN  \* np.max of an empty window
        IF Len(theta_series(1)) = 0
        THEN TrackerOutcome("ValueError",
                 [self EXCEPT !.max_theta_save = [p \in 1..n |-> 0],
                              !.min_theta_save = [p \in 1..n |-> 0],
                              !.frequency_theta_save = [p \in 1..n |-> 0],
                              !.frequency_dE_save = [p \in 1..n |-> 0]])
        ELSE TrackerOutcome(IF failing = {} THEN "none" ELSE "ValueError",
                            after)

\* the initial coordinates of the probes, in radians
ThetaValues == {0 - (7 * One) \div 8, 0, One \div 2, (7 * One) \div 8}

\* GeneralParameters of the tracker: n_turns, and ring_radius and beta of
\* the ensemble
TrackerRings ==
    [n_turns : 1..MaxTurns, ring_radius : {One, (5 * One) \div 4},
     beta : {One}]

\* the kicks of the ring
Kicks == {One \div 2, One}

\* no caller outside the tracker
NotTracker ==
    /\ WellIdle /\ ModIdle /\ RFIdle /\ SFDIdle
    /\ MovingAverageIdle /\ CombineIdle /\ PreprocessIdle /\ OffsetIdle

TrackerInit ==
    /\ NotTracker
    /\ warnings_filters = <<>>
    /\ trk_state = "new"
    /\ tracker = None
    /\ trk_raised = "none"
    /\ trk_history = <<>>
    /\ trk_heap = [ring |-> [turn |-> 0], induced |-> [ghost_calls |-> 0]]
    /\ \E g \in TrackerRings : \E n \in 1..MaxParticles :
       \E len \in {n, 2, n + 1} : \E range \in [1..len -> ThetaValues] :
       \E induced \in {NoObject, "induced"} :
           trk_args = [GeneralParameters |-> g, n_macroparticles |-> n,
                       theta_coordinate_range |-> range,
                       FullRingAndRF |-> "ring",
                       TotalInducedVoltage |-> induced]

\* the caller constructs the tracker
Construct ==
    /\ trk_state = "new"
    /\ \E r \in {synchrotron_frequency_tracker(trk_heap,
                     trk_args.GeneralParameters, trk_args.n_macroparticles,
                     trk_args.theta_coordinate_range, trk_args.FullRingAndRF,
                     trk_args.TotalInducedVoltage)} :
           /\ trk_raised' = r.raised
           /\ tracker' = r.self
           /\ trk_heap' = r.heap
           /\ trk_state' = IF r.raised = "none" THEN "built" ELSE "failed"
           /\ trk_history' = IF r.raised = "none" THEN <<r.self.Beam>>
                             ELSE <<>>
    /\ UNCHANGED <<trk_args, not_trk_vars>>

\* the caller tracks one turn; trk_history keeps the ensemble as each call
\* of the ring leaves it
Call_track ==
    /\ trk_state = "built"
    /\ trk_raised = "none"
    /\ \E g \in Kicks : \E r \in {track(tracker, trk_heap, g)} :
           /\ trk_raised' = r.raised
           /\ tracker' = r.self
           /\ trk_heap' = r.heap
           /\ trk_history' = Append(trk_history, r.self.Beam)
    /\ UNCHANGED <<trk_args, trk_state, not_trk_vars>>

\* the caller asks for the frequencies
Call_frequency_calculation ==
    /\ trk_state = "built"
    /\ trk_raised = "none"
    /\ \E start_turn \in 0..1 :
       \E r \in {frequency_calculation(tracker, start_turn)} :
           /\ trk_raised' = r.raised
           /\ tracker' = r.self
           /\ trk_state' = "analysed"
           /\ trk_args' =
                  [GeneralParameters |-> trk_args.GeneralParameters,
                   n_macroparticles |-> trk_args.n_macroparticles,
                   theta_coordinate_range |-> trk_args.theta_coordinate_range,
                   FullRingAndRF |-> trk_args.FullRingAndRF,
                   TotalInducedVoltage |-> trk_args.TotalInducedVoltage,
                   start_turn |-> start_turn]
    /\ UNCHANGED <<trk_history, trk_heap, not_trk_vars>>

TrackerNext ==
    \/ Construct
    \/ Call_track
    \/ Call_frequency_calculation

SpecTracker == TrackerInit /\ [][TrackerNext]_vars

---------------------------------------------------------------------------
(* Properties of synchrotron_frequency_tracker                             *)

\* the coordinates the constructor is given: the array itself, or the
\* n_macroparticles points spaced linearly between [min, max]
InputCoordinates ==
    IF Len(trk_args.theta_coordinate_range) = trk_args.n_macroparticles
    THEN trk_args.theta_coordinate_range
    ELSE np_linspace(trk_args.theta_coordinate_range[1],
                     trk_args.theta_coordinate_range[2],
                     trk_args.n_macroparticles)

\* the length of theta_coordinate_range is 2 or n_macroparticles
LengthAccepted ==
    Len(trk_args.theta_coordinate_range) \in {2, trk_args.n_macroparticles}

\* the tracker exists
TrackerBuilt == trk_state \in {"built", "analysed"}

\* C19: the constructor raises RuntimeError exactly when the length of
\* theta_coordinate_range is neither 2 nor n_macroparticles; otherwise the
\* ensemble has n_macroparticles particles, dE = 0 after construction, and
\* row 0 of the history holds the input coordinates
C19_ConstructorLengthCheck ==
    (trk_state # "new") =>
        /\ (trk_state = "failed") <=> ~LengthAccepted
        /\ (trk_state = "failed") => (trk_raised = "RuntimeError")
        /\ TrackerBuilt =>
              /\ Len(tracker.Beam.dt) = trk_args.n_macroparticles
              /\ Len(tracker.Beam.dE) = trk_args.n_macroparticles
              /\ \A p \in 1..trk_args.n_macroparticles :
                     trk_history[1].dE[p] = 0
              /\ tracker.theta_save[1] = InputCoordinates

\* the number of track() calls made
TrackCalls == Len(trk_history) - 1

\* C20: after k <= n_turns calls of track() the counter is k, rows 0..k of
\* theta_save and dE_save hold the coordinates of the ensemble after
\* construction and after each turn, in turn order, the rows above k are
\* zero, and both histories have n_turns + 1 rows of n_macroparticles
\* columns
C20_HistoryInvariant ==
    (TrackerBuilt /\ TrackCalls <= trk_args.GeneralParameters.n_turns) =>
        /\ tracker.counter = TrackCalls
        /\ Len(tracker.theta_save) = trk_args.GeneralParameters.n_turns + 1
        /\ Len(tracker.dE_save) = trk_args.GeneralParameters.n_turns + 1
        /\ \A r \in 1..Len(tracker.theta_save) :
              /\ Len(tracker.theta_save[r]) = trk_args.n_macroparticles
              /\ Len(tracker.dE_save[r]) = trk_args.n_macroparticles
              /\ r <= TrackCalls + 1 =>
                    /\ tracker.theta_save[r] = theta_of(trk_history[r])
                    /\ tracker.dE_save[r] = trk_history[r].dE
              /\ r > TrackCalls + 1 =>
                    \A p \in 1..trk_args.n_macroparticles :
                        /\ tracker.theta_save[r][p] = 0
                        /\ tracker.dE_save[r][p] = 0

\* a history filled by n_turns >= 2 calls, its rows all different
C20_Witness ==
    /\ trk_state = "built"
    /\ trk_raised = "none"
    /\ trk_args.GeneralParameters.n_turns >= 2
    /\ TrackCalls = trk_args.GeneralParameters.n_turns
    /\ tracker.counter = TrackCalls
    /\ \A r, s \in 1..Len(tracker.theta_save) :
           r # s => /\ tracker.theta_save[r] # tracker.theta_save[s]
                    /\ tracker.dE_save[r] # tracker.dE_save[s]

\* the theta series of particle p over the analysis window
WindowTheta(p) ==
    Column(tracker.theta_save, trk_args.start_turn, tracker.nTurns + 1, p)

\* the range of particle p over the window exceeds the extreme range of
\* the initial ensemble
ExceedsInitialRange(p) ==
    \/ ArrayMax(WindowTheta(p)) > ArrayMax(tracker.theta_save[1])
    \/ ArrayMin(WindowTheta(p)) < ArrayMin(tracker.theta_save[1])

\* C18: frequency_calculation on a filled history returns; a particle
\* whose range exceeds the initial extreme range has both estimates 0, and
\* every other particle has an estimate from theta and one from dE
C18_LostWhenRangeExceeded ==
    (trk_state = "analysed" /\ TrackCalls = tracker.nTurns - 1) =>
        /\ trk_raised = "none"
        /\ \A p \in 1..tracker.n_macroparticles :
              /\ ExceedsInitialRange(p) =>
                    /\ tracker.frequency_theta_save[p] = 0
                    /\ tracker.frequency_dE_save[p] = 0
              /\ ~ExceedsInitialRange(p) =>
                    /\ tracker.frequency_theta_save[p] # 0
                    /\ tracker.frequency_dE_save[p] # 0

\* C28: in every state after construction the caller's FullRingAndRF and
\* the caller's TotalInducedVoltage are as they were given: no turn has
\* been tracked on the one and no operation called on the other
C28_CallerCollaboratorsUntouched ==
    TrackerBuilt =>
        /\ trk_heap.ring = [turn |-> 0]
        /\ trk_heap.induced = [ghost_calls |-> 0]

\* C29: a call of track() on a full history raises and leaves the counter
\* and the turn of the tracker's copy of the ring as they were, so neither
\* ever exceeds n_turns, and the histories keep the rows of the n_turns
\* turns tracked
C29_FullHistoryTrackChangesNothing ==
    TrackerBuilt =>
        /\ tracker.counter <= trk_args.GeneralParameters.n_turns
        /\ trk_heap.ring_copy.turn <= trk_args.GeneralParameters.n_turns
        /\ trk_raised = "IndexError" =>
              /\ TrackCalls = trk_args.GeneralParameters.n_turns + 1
              /\ \A r \in 1..Len(tracker.theta_save) :
                    /\ tracker.theta_save[r] = theta_of(trk_history[r])
                    /\ tracker.dE_save[r] = trk_history[r].dE

\* T_RF = 2 pi / omega_RF[0] and t_RF = -phi_RF[0] / omega_RF[0] at the
\* current turn
CurrentTRF ==
    (2 * HalfTurn) \div rf_section.omega_RF[1][rf_section.counter[1] + 1]

CurrenttRF ==
    (0 - rf_section.phi_RF[1][rf_section.counter[1] + 1])
    \div rf_section.omega_RF[1][rf_section.counter[1] + 1]

\* C26: the times separatrix evaluates lie in [-T_RF/2 + t_RF,
\* T_RF/2 + t_RF] below transition and in [t_RF, t_RF + T_RF] above
C26_ProjectedTimeRange ==
    (RFCalled("separatrix") /\ rf_result.raised = "none") =>
        \A j \in 1..Len(rf_result.dt) :
            IF rf_section.eta_0[rf_section.counter[1] + 1] < 0
            THEN /\ 2 * rf_result.dt[j] >= 2 * CurrenttRF - CurrentTRF
                 /\ 2 * rf_result.dt[j] <= 2 * CurrenttRF + CurrentTRF
            ELSE /\ rf_result.dt[j] >= CurrenttRF
                 /\ rf_result.dt[j] <= CurrenttRF + CurrentTRF

\* the part of C26 above transition
C26_AboveTransitionRange ==
    (RFCalled("separatrix") /\ rf_result.raised = "none"
       /\ rf_section.eta_0[rf_section.counter[1] + 1] > 0) =>
        \A j \in 1..Len(rf_result.dt) :
            /\ rf_result.dt[j] >= CurrenttRF
            /\ rf_result.dt[j] <= CurrenttRF + CurrentTRF

\* the unstable-fixed-point search of the current multi-harmonic call
CurrentUfp ==
    LET counter == rf_section.counter[1]
        n_rf == rf_section.n_rf
        E_increment == rf_section.E_increment
    IN  find_ufp([i \in 1..n_rf |->
                     general_params.charge * rf_section.voltage[i][counter + 1]],
                 [i \in 1..n_rf |-> rf_section.omega_RF[i][counter + 1]],
                 [i \in 1..n_rf |-> rf_section.phi_RF[i][counter + 1]],
                 n_rf, rf_section.eta_0[counter + 1],
                 IF counter + 1 <= Len(E_increment)
                 THEN E_increment[counter + 1]
                 ELSE E_increment[Len(E_increment)])

\* the crossing ind of the search u has the slope of an unstable fixed
\* point and is the last such crossing below transition, the first above
SelectsCrossing(u, eta0) ==
    LET slope(j) == u.Vtot[j + 1] - u.Vtot[j]
        crossings == {u.zero_crossings[k] : k \in 1..Len(u.zero_crossings)}
    IN  /\ u.ind \in crossings
        /\ IF eta0 < 0
           THEN /\ slope(u.ind) <= 0
                /\ \A j \in crossings : j > u.ind => slope(j) > 0
           ELSE /\ slope(u.ind) >= 0
                /\ \A j \in crossings : j < u.ind => slope(j) < 0
        \* dt_ufp[ind] <= un/ud <= dt_ufp[ind+1]
        /\ u.dt_ufp[u.ind] * u.ud <= u.un
        /\ u.un <= u.dt_ufp[u.ind + 1] * u.ud

\* C27: the search of every multi-harmonic call of separatrix ends with a
\* crossing selected: the call raises nothing, the crossing is one of the
\* detected ones with the slope of the unstable fixed point, and the
\* interpolated time lies between its two samples
C27_UfpSearchSelectsCrossing ==
    (RFCalled("separatrix") /\ rf_section.n_rf > 1) =>
        /\ rf_result.raised = "none"
        /\ SelectsCrossing(CurrentUfp,
                           rf_section.eta_0[rf_section.counter[1] + 1])

\* the part of C27 for the searches that find a crossing
C27_SelectedCrossingIsRight ==
    (RFCalled("separatrix") /\ rf_section.n_rf > 1
       /\ rf_result.raised = "none") =>
        SelectsCrossing(CurrentUfp,
                        rf_section.eta_0[rf_section.counter[1] + 1])

---------------------------------------------------------------------------
(* Purity of the potential-well functions                                  *)

\* C21: a call of synchrotron_frequency_distribution, of potential_well_cut
\* or of minmax_location leaves the process-wide warnings filter and the
\* potential well stored on FullRingAndRF as they were on entry
C21_CallsLeaveStateUnchanged ==
    [][/\ warnings_filters' = warnings_filters
       /\ sfd_ring_well' = sfd_ring_well]_vars

\* the part of C21 about the well stored on FullRingAndRF
C21_StoredWellUnchanged == [][sfd_ring_well' = sfd_ring_well]_vars

\* the part of C21 about the warnings filter
C21_FiltersUnchanged == [][warnings_filters' = warnings_filters]_vars

---------------------------------------------------------------------------
(* moving_average (llrf/signal_processing.py) and the loop of the          *)
(* benchmark BM3_OTFB_moving_average.  A signal is the record of the       *)
(* numerators num of its samples over a common denominator den > 0; a      *)
(* number (prev, x_prev) is the pair <<numerator, denominator>>, None no   *)
(* value.                                                                  *)

\* the largest number of samples of the signal
MaxSignal == 4

\* the largest window n_ma
MaxWindow == 3

\* the largest number of iterations of the benchmark loop
MaxIterations == 2

\* "if x_prev:" of Python: None and a number equal to 0 are false
Truthy(x_prev) == x_prev # None /\ x_prev[1] # 0

\* np.cumsum(np.insert(x, 0, 0)): entry k + 1 is the sum of the first k
cumsum_insert(num) == [k \in 1..(Len(num) + 1) |-> SumRange(num, 1, k - 1)]

\* moving_average(x, N, x_prev)
moving_average(x, N, x_prev) ==
    LET padded == Truthy(x_prev)
        \* int(N/2), and N rounded up to the next odd number
        N_half == N \div 2
        N1 == IF padded THEN N_half * 2 + 1 ELSE N
        den == IF padded THEN x.den * x_prev[2] ELSE x.den
        \* np.concatenate((x_prev*np.ones(N_half), x, x[-1]*np.ones(N_half)))
        x1 == IF padded
              THEN [k \in 1..N_half |-> x_prev[1] * x.den]
                   \o [k \in 1..Len(x.num) |-> x.num[k] * x_prev[2]]
                   \o [k \in 1..N_half |-> x.num[Len(x.num)] * x_prev[2]]
              ELSE x.num
        cumulative_sum == cumsum_insert(x1)
        \* the number of entries of cumulative_sum[N:], and of
        \* cumulative_sum[:-N]
        count == IF Len(x1) + 1 - N1 < 0 THEN 0 ELSE Len(x1) + 1 - N1
    IN  \* (cumulative_sum[N:] - cumulative_sum[:-N]) / N
        [num |-> [k \in 1..count |->
                     cumulative_sum[N1 + k] - cumulative_sum[k]],
         den |-> den * N1]

\* np.mean(signal[-n_ma:]): the mean of the last n_ma samples, of all
\* samples when there are fewer
mean_of_last(signal, n_ma) ==
    LET n == Len(signal.num)
        m == IF n_ma > n THEN n ELSE n_ma
    IN  <<SumRange(signal.num, n - m + 1, n), signal.den * m>>

\* the values prev starts from
PreviousValues == {None, <<0, 1>>, <<1, 1>>, <<0 - 1, 2>>}

\* no caller outside moving_average
NotMovingAverage ==
    /\ WellIdle /\ ModIdle /\ RFIdle /\ SFDIdle
    /\ TrackerIdle /\ CombineIdle /\ PreprocessIdle /\ OffsetIdle

MovingAverageInit ==
    /\ NotMovingAverage
    /\ warnings_filters = <<>>
    /\ \E n \in 1..MaxSignal : \E num \in [1..n -> {0 - 1, 0, 1}] :
           /\ ma_signal = [num |-> num, den |-> 1]
           /\ ma_time = n
    /\ ma_n \in 1..MaxWindow
    /\ ma_prev \in PreviousValues
    /\ ma_last = <<>>
    /\ ma_iterations = 0

\* one iteration of the benchmark loop: signal = moving_average(signal,
\* n_ma, prev); prev = np.mean(signal[-n_ma:])
Benchmark_iteration ==
    /\ ma_iterations < MaxIterations
    /\ ma_signal.num # <<>>
    /\ \E signal \in {moving_average(ma_signal, ma_n, ma_prev)} :
           /\ ma_signal' = signal
           \* the mean of no samples is nan (a number that is not 0)
           /\ ma_prev' = IF signal.num = <<>> THEN <<1, 0>>
                         ELSE mean_of_last(signal, ma_n)
    /\ ma_last' = [x |-> ma_signal, N |-> ma_n, x_prev |-> ma_prev]
    /\ ma_iterations' = ma_iterations + 1
    /\ UNCHANGED <<ma_n, ma_time, not_ma_vars>>

MovingAverageNext == Benchmark_iteration

SpecMovingAverage == MovingAverageInit /\ [][MovingAverageNext]_vars

---------------------------------------------------------------------------
(* Properties of moving_average                                            *)

\* C22: a call without a previous-turn value returns len(x) - N + 1 points
\* (N <= len(x) + 1), a call with one, whatever its value, len(x) points
C22_LengthOfMovingAverage ==
    (ma_last # <<>>) =>
        IF ma_last.x_prev = None
        THEN ma_last.N <= Len(ma_last.x.num) + 1 =>
                 Len(ma_signal.num) = Len(ma_last.x.num) - ma_last.N + 1
        ELSE Len(ma_signal.num) = Len(ma_last.x.num)

\* the part of C22 for the values of x_prev other than 0
C22_LengthForNonZeroPrevious ==
    (ma_last # <<>> /\ (ma_last.x_prev = None \/ Truthy(ma_last.x_prev))) =>
        IF ma_last.x_prev = None
        THEN ma_last.N <= Len(ma_last.x.num) + 1 =>
                 Len(ma_signal.num) = Len(ma_last.x.num) - ma_last.N + 1
        ELSE Len(ma_signal.num) = Len(ma_last.x.num)

\* C22, the loop: the signal keeps the length of its time axis
C22_SignalKeepsLengthOfTimeAxis ==
    (ma_last # <<>> /\ ma_last.x_prev # None /\ ma_iterations = 1) =>
        Len(ma_signal.num) = ma_time

---------------------------------------------------------------------------
(* combine_rf_functions of input_parameters/rf_parameters_options.py.      *)
(* A program is a pair <<function, <<start_time, stop_time>>>>, the        *)
(* function a single value or an array [time, value].  The times and the   *)
(* values of the merged program are fractions <<numerator, denominator>>.  *)
(* An argument that is a single value or a list is a record of its kind    *)
(* ("value" or "list") and its value.                                      *)

\* most programs in function_list
MaxFunctions == 2
\* the start and stop times are 0..MaxTime
MaxTime == 2
\* the resolutions are 1..MaxResolution
MaxResolution == 2

\* an integer as a fraction
Frac(n) == <<n, 1>>

\* int(a/b) of Python for b > 0: the quotient rounded towards zero
int_div(a, b) == IF a < 0 THEN 0 - ((0 - a) \div b) ELSE a \div b

\* the outcome of a step that raised
CombineRaised(exc) == [raised |-> exc, fullTime |-> <<>>, fullFunction |-> <<>>]

\* isinstance(x, list) and isinstance(x, np.ndarray)
is_list(x) == x.kind = "list"
is_ndarray(f) == f.kind = "ndarray"

\* (nFunctions-1)*[x]: a list of no entries when nFunctions is 0
repeat_list(n, x) == [k \in 1..(IF n < 0 THEN 0 ELSE n) |-> x]

\* np.where(times > bound)[0][0] (strict) or np.where(times >= bound)[0][0]:
\* the first position that passes, counted from 1; 0 when there is none,
\* where the code raises IndexError
np_where_first(times, bound, strict) ==
    LET S == {k \in 1..Len(times) :
                 IF strict THEN times[k] > bound ELSE times[k] >= bound}
    IN  IF S = {} THEN 0 ELSE CHOOSE k \in S : \A j \in S : k <= j

\* np.interp(x, xp, fp) at one point x for increasing xp: the end values
\* outside, the straight line between the neighbours inside (the values
\* used make the division exact)
np_interp_at(x, xp, fp) ==
    IF x <= xp[1] THEN fp[1]
    ELSE IF x >= xp[Len(xp)] THEN fp[Len(xp)]
    ELSE LET j == CHOOSE k \in 1..(Len(xp) - 1) : xp[k] <= x /\ x < xp[k + 1]
         IN  fp[j] + ((fp[j + 1] - fp[j]) * (x - xp[j])) \div (xp[j + 1] - xp[j])

\* the array program cut to its interval: funcTime and funcProg
truncated(function, interval, strict) ==
    LET start == np_where_first(function.time, interval[1], strict)
        stop == np_where_first(function.time, interval[2], strict)
        funcTime == <<interval[1]>>
                    \o SubSeq(function.time, start, stop - 1)
                    \o <<interval[2]>>
    IN  IF start = 0 \/ stop = 0
        THEN [raised |-> "IndexError", funcTime |-> <<>>, funcProg |-> <<>>]
        ELSE [raised |-> "none",
              funcTime |-> funcTime,
              funcProg |-> [k \in 1..Len(funcTime) |->
                  np_interp_at(funcTime[k], function.time, function.value)]]

\* a list of integers as a list of fractions
Fracs(a) == [k \in 1..Len(a) |-> Frac(a[k])]

\* np.linspace(start, stop, nSteps) for nSteps >= 0
linspace_frac(start, stop, nSteps) ==
    [j \in 1..nSteps |->
        IF nSteps = 1 THEN Frac(start)
        ELSE <<start * (nSteps - 1) + (j - 1) * (stop - start), nSteps - 1>>]

\* the square root of 1 or 4
sqrt_of(v) == CHOOSE r \in 0..v : r * r = v

\* Vinit/((1-k*(time-time[0]))**2) with k = (1./tDur)*(1-(Vinit/Vfin)**0.5)
\* on the nSteps points of the linspace
isoadiabatic_volts(Vinit, Vfin, nSteps) ==
    LET p == sqrt_of(Vinit)
        q == sqrt_of(Vfin)
    IN  [j \in 1..nSteps |->
            IF nSteps = 1 THEN Frac(Vinit)
            ELSE LET d == (nSteps - 1) * q - (q - p) * (j - 1)
                 IN  <<Vinit * ((nSteps - 1) * q) * ((nSteps - 1) * q), d * d>>]

\* the numerator of the last entry of a list of fractions with denominator 1
last_of(a) == a[Len(a)][1]

\* one program merged to the ones before it
merge_one(entry, merge, res, fullTime, fullFunction) ==
    LET function == entry[1]
        interval == entry[2]
        cut == truncated(function, interval, FALSE)
        single == ~ is_ndarray(function)
        funcTime == IF single THEN interval ELSE cut.funcTime
        funcProg == IF single THEN <<function.value, function.value>>
                    ELSE cut.funcProg
        tDur == funcTime[1] - last_of(fullTime)
        nSteps == int_div(tDur, res)
        Vinit == last_of(fullFunction)
        Vfin == funcProg[1]
    IN  IF merge = "linear"
        THEN IF ~ single /\ cut.raised # "none"
             THEN CombineRaised(cut.raised)
             ELSE [raised |-> "none",
                   fullTime |-> fullTime \o Fracs(funcTime),
                   fullFunction |-> fullFunction \o Fracs(funcProg)]
        ELSE IF merge = "isoadiabatic"
        THEN IF ~ single /\ cut.raised # "none"
             THEN CombineRaised(cut.raised)
             ELSE IF tDur = 0 THEN CombineRaised("ZeroDivisionError")
             ELSE IF nSteps < 0 THEN CombineRaised("ValueError")
             ELSE [raised |-> "none",
                   fullTime |-> fullTime
                       \o linspace_frac(last_of(fullTime), funcTime[1], nSteps)
                       \o Fracs(funcTime),
                   fullFunction |-> fullFunction
                       \o isoadiabatic_volts(Vinit, Vfin, nSteps)
                       \o Fracs(funcProg)]
        ELSE IF merge = "linear_tune"
        \* Ring is None, its default: Ring.parameters_at_time raises
        THEN IF single THEN CombineRaised("AttributeError")
             ELSE IF cut.raised # "none" THEN CombineRaised(cut.raised)
             ELSE IF nSteps < 0 THEN CombineRaised("ValueError")
             ELSE CombineRaised("AttributeError")
        ELSE CombineRaised("RuntimeError: merge_type not recognised")

\* the loop over the programs i..nFunctions (counted from 1)
RECURSIVE merge_from(_, _, _, _, _, _)
merge_from(function_list, merge_type, resolution, i, fullTime, fullFunction) ==
    IF i > Len(function_list)
    THEN [raised |-> "none", fullTime |-> fullTime,
          fullFunction |-> fullFunction]
    ELSE LET r == merge_one(function_list[i], merge_type[i - 1],
                            resolution[i - 1], fullTime, fullFunction)
         IN  IF r.raised # "none" THEN r
             ELSE merge_from(function_list, merge_type, resolution, i + 1,
                             r.fullTime, r.fullFunction)

\* timePoints: the start and stop times of the programs, in order
timePoints_of(function_list) ==
    [k \in 1..(2 * Len(function_list)) |->
        function_list[(k + 1) \div 2][2][2 - (k % 2)]]

\* "not np.all(np.diff(timePoints)) > 0", which Python reads as
\* not (np.all(np.diff(timePoints)) > 0): np.all is True when no difference
\* is zero, and True > 0
times_check_fails(timePoints) ==
    ~ (\A k \in 1..(Len(timePoints) - 1) : timePoints[k + 1] - timePoints[k] # 0)

\* the first program, cut with the strict comparison
first_program(entry) ==
    LET function == entry[1]
        interval == entry[2]
        cut == truncated(function, interval, TRUE)
    IN  IF ~ is_ndarray(function)
        THEN [raised |-> "none",
              fullTime |-> Fracs(interval),
              fullFunction |-> Fracs(<<function.value, function.value>>)]
        ELSE IF cut.raised # "none" THEN CombineRaised(cut.raised)
        ELSE [raised |-> "none",
              fullTime |-> Fracs(cut.funcTime),
              fullFunction |-> Fracs(cut.funcProg)]

\* combine_rf_functions(function_list, merge_type, resolution) with Ring
\* None: the exception raised ("none": the call returned) and the rows of
\* the returned array
combine_rf_functions(function_list, merge_type, resolution) ==
    LET nFunctions == Len(function_list)
        merge_type_ == IF ~ is_list(merge_type)
                       THEN repeat_list(nFunctions - 1, merge_type.value)
                       ELSE merge_type.value
        resolution_ == IF ~ is_list(resolution)
                       THEN repeat_list(nFunctions - 1, resolution.value)
                       ELSE resolution.value
        first == first_program(function_list[1])
    IN  IF Len(merge_type_) # nFunctions
        THEN CombineRaised("RuntimeError: merge_type list wrong length")
        ELSE IF Len(resolution_) # nFunctions
        THEN CombineRaised("RuntimeError: resolution list wrong length")
        ELSE IF times_check_fails(timePoints_of(function_list))
        THEN CombineRaised("RuntimeError: times are not monotonically increasing")
        ELSE IF first.raised # "none" THEN first
        ELSE merge_from(function_list, merge_type_, resolution_, 2,
                        first.fullTime, first.fullFunction)

\* the functions of the programs: a single value, or an array [time, value]
Functions ==
    {[kind |-> "value", value |-> 1], [kind |-> "value", value |-> 4],
     [kind |-> "ndarray", time |-> <<0, 1, 2, 3>>, value |-> <<1, 4, 4, 1>>]}

Intervals == (0..MaxTime) \X (0..MaxTime)

MergeTypes == {"linear", "isoadiabatic", "linear_tune", "cubic"}

\* the lists of 0..n entries from S
ListsUpTo(n, S) == UNION {[1..m -> S] : m \in 0..n}

\* no caller outside combine_rf_functions
NotCombine ==
    /\ WellIdle /\ ModIdle /\ RFIdle /\ SFDIdle
    /\ TrackerIdle /\ MovingAverageIdle /\ PreprocessIdle /\ OffsetIdle

CombineInit ==
    /\ NotCombine
    /\ warnings_filters = <<>>
    /\ \E n \in 1..MaxFunctions :
       \E function_list \in [1..n -> Functions \X Intervals] :
       \E kinds \in {"value", "list"} \X {"value", "list"} :
       \E merge_type \in
              IF kinds[1] = "value"
              THEN {[kind |-> "value", value |-> m] : m \in MergeTypes}
              ELSE {[kind |-> "list", value |-> l] :
                       l \in ListsUpTo(n, {"linear", "isoadiabatic"})} :
       \E resolution \in
              IF kinds[2] = "value"
              THEN {[kind |-> "value", value |-> r] : r \in 1..MaxResolution}
              ELSE {[kind |-> "list", value |-> l] :
                       l \in [1..n -> 1..MaxResolution] \cup {<<>>}} :
           cmb_args = [function_list |-> function_list,
                       merge_type |-> merge_type,
                       resolution |-> resolution]
    /\ cmb_done = FALSE
    /\ cmb_result = <<>>

Call_combine_rf_functions ==
    /\ ~ cmb_done
    /\ cmb_done' = TRUE
    /\ cmb_result' = combine_rf_functions(cmb_args.function_list,
                                          cmb_args.merge_type,
                                          cmb_args.resolution)
    /\ UNCHANGED <<cmb_args, not_cmb_vars>>

CombineNext == Call_combine_rf_functions

SpecCombine == CombineInit /\ [][CombineNext]_vars

---------------------------------------------------------------------------
(* Properties of combine_rf_functions                                      *)

\* the call was made with one merge_type string and one resolution value
CalledWithSingleValues ==
    /\ cmb_done
    /\ ~ is_list(cmb_args.merge_type)
    /\ ~ is_list(cmb_args.resolution)

WrongLength(exc) ==
    exc \in {"RuntimeError: merge_type list wrong length",
             "RuntimeError: resolution list wrong length"}

\* C23: a call with one merge_type string and one resolution value raises
\* no wrong-length error, and when it returns, the two rows of the array
\* have the same length
C23_SingleValuesAreExpanded ==
    CalledWithSingleValues =>
        /\ ~ WrongLength(cmb_result.raised)
        /\ cmb_result.raised = "none" =>
               Len(cmb_result.fullTime) = Len(cmb_result.fullFunction)

\* the rows of every returned array have the same length
C23_RowsOfEqualLength ==
    (cmb_done /\ cmb_result.raised = "none") =>
        Len(cmb_result.fullTime) = Len(cmb_result.fullFunction)

\* the lists the check accepts have one entry per program, not one per
\* junction
C23_AcceptedListsHaveOneEntryPerProgram ==
    (cmb_done /\ ~ WrongLength(cmb_result.raised)) =>
        /\ is_list(cmb_args.merge_type)
        /\ is_list(cmb_args.resolution)
        /\ Len(cmb_args.merge_type.value) = Len(cmb_args.function_list)
        /\ Len(cmb_args.resolution.value) = Len(cmb_args.function_list)

\* every entry is larger than the one before it
StrictlyIncreasing(a) == \A k \in 1..(Len(a) - 1) : a[k + 1] > a[k]

\* the call got as far as the check of the times
ReachedTimesCheck == cmb_done /\ ~ WrongLength(cmb_result.raised)

\* C24: the call raises the error of the times exactly when the start and
\* stop times, in order, are not strictly increasing
C24_RaisesUnlessStrictlyIncreasing ==
    ReachedTimesCheck =>
        ((cmb_result.raised =
              "RuntimeError: times are not monotonically increasing")
         <=> ~ StrictlyIncreasing(timePoints_of(cmb_args.function_list)))

\* what the check does: it raises exactly when two consecutive times are
\* equal
C24_RaisesWhenTwoTimesAreEqual ==
    ReachedTimesCheck =>
        ((cmb_result.raised =
              "RuntimeError: times are not monotonically increasing")
         <=> \E k \in 1..(2 * Len(cmb_args.function_list) - 1) :
                 timePoints_of(cmb_args.function_list)[k]
                     = timePoints_of(cmb_args.function_list)[k + 1])

---------------------------------------------------------------------------
(* PreprocessRFParams.preprocess of                                        *)
(* input_parameters/rf_parameters_options.py, for an object made with      *)
(* smoothing 0 and plot False, the defaults.  The time arrays are          *)
(* increasing, which np.interp and splrep take for granted.                *)

\* most arrays in time_arrays and in data_arrays
MaxPairs == 2

\* the exception that left preprocess; data_interp is lost with it
PreprocessRaised(exc) == [raised |-> exc, data_interp |-> <<>>]

\* the product of x - xp[j] over the nodes j of J
RECURSIVE node_product(_, _, _)
node_product(x, xp, J) ==
    IF J = {} THEN 1
    ELSE LET j == CHOOSE k \in J : TRUE
         IN  (x - xp[j]) * node_product(x, xp, J \ {j})

\* num/den for a den that divides num
exact_div(num, den) ==
    IF den < 0 THEN (0 - num) \div (0 - den) ELSE num \div den

\* splev(x, splrep(xp, fp, s = 0)) at one point for four nodes: the spline
\* has no inner knot and is the cubic through the four points (the values
\* used make the divisions exact)
cubic_at(x, xp, fp) ==
    LET nodes == 1..Len(xp)
        term(i) == exact_div(fp[i] * node_product(x, xp, nodes \ {i}),
                             node_product(xp[i], xp, nodes \ {i}))
    IN  term(1) + term(2) + term(3) + term(4)

\* the body of the loop for one pair: the interpolated array, or the
\* exception
interpolated(interpolation, cumulative_time, time_array, data_array) ==
    IF Len(time_array) # Len(data_array)
    THEN [raised |-> "RuntimeError", array |-> <<>>]
    ELSE IF interpolation = "linear"
    \* np.interp refuses an empty array of sample points
    THEN IF Len(time_array) = 0
         THEN [raised |-> "ValueError", array |-> <<>>]
         ELSE [raised |-> "none",
               array |-> [k \in 1..Len(cumulative_time) |->
                   np_interp_at(cumulative_time[k], time_array, data_array)]]
    \* splrep needs more points than the degree 3 of the spline
    ELSE IF Len(time_array) <= 3
         THEN [raised |-> "TypeError", array |-> <<>>]
         ELSE [raised |-> "none",
               array |-> [k \in 1..Len(cumulative_time) |->
                   cubic_at(cumulative_time[k], time_array, data_array)]]

\* the loop of preprocess from pair i on (counted from 1)
RECURSIVE preprocess_from(_, _, _, _, _)
preprocess_from(self, Ring, time_arrays, data_arrays, data_interp) ==
    LET i == Len(data_interp) + 1
    IN  IF i > Len(time_arrays)
        THEN [raised |-> "none", data_interp |-> data_interp]
        \* data_arrays[i] of a shorter list
        ELSE IF i > Len(data_arrays) THEN PreprocessRaised("IndexError")
        ELSE LET r == interpolated(self.interpolation, Ring.cycle_time,
                                   time_arrays[i], data_arrays[i])
             IN  IF r.raised # "none" THEN PreprocessRaised(r.raised)
                 ELSE preprocess_from(self, Ring, time_arrays, data_arrays,
                                      Append(data_interp, r.array))

\* PreprocessRFParams.preprocess(self, Ring, time_arrays, data_arrays)
preprocess(self, Ring, time_arrays, data_arrays) ==
    preprocess_from(self, Ring, time_arrays, data_arrays, <<>>)

\* the time arrays and the data arrays of the callers
ProgramTimes == {<<>>, <<0, 2>>, <<0, 1, 2>>, <<0, 1, 2, 3>>}

ProgramData ==
    {<<>>, <<0, 6>>, <<6, 0>>, <<0, 6, 0>>, <<0, 6, 6, 0>>, <<6, 0, 0, 6>>}

\* Ring.cycle_time
CycleTimes == {<<0, 1>>, <<0, 1, 2>>}

\* no caller outside preprocess
NotPreprocess ==
    /\ WellIdle /\ ModIdle /\ RFIdle /\ SFDIdle
    /\ TrackerIdle /\ MovingAverageIdle /\ CombineIdle /\ OffsetIdle

PreprocessInit ==
    /\ NotPreprocess
    /\ warnings_filters = <<>>
    /\ \E interpolation \in {"linear", "cubic"} :
       \E cycle_time \in CycleTimes :
       \E n \in 1..MaxPairs : \E m \in 0..MaxPairs :
       \E time_arrays \in [1..n -> ProgramTimes] :
       \E data_arrays \in [1..m -> ProgramData] :
           pre_args = [self |-> [interpolation |-> interpolation],
                       Ring |-> [cycle_time |-> cycle_time],
                       time_arrays |-> time_arrays,
                       data_arrays |-> data_arrays]
    /\ pre_done = FALSE
    /\ pre_result = <<>>

Call_preprocess ==
    /\ ~ pre_done
    /\ pre_done' = TRUE
    /\ pre_result' = preprocess(pre_args.self, pre_args.Ring,
                                pre_args.time_arrays, pre_args.data_arrays)
    /\ UNCHANGED <<pre_args, not_pre_vars>>

PreprocessNext == Call_preprocess

SpecPreprocess == PreprocessInit /\ [][PreprocessNext]_vars

---------------------------------------------------------------------------
(* Properties of PreprocessRFParams.preprocess                             *)

\* the call was made with one data array for each time array
CalledWithPairs ==
    /\ pre_done
    /\ Len(pre_args.time_arrays) = Len(pre_args.data_arrays)

\* a time array and its data array have different lengths
SomePairMismatched ==
    \E i \in 1..Len(pre_args.time_arrays) :
        Len(pre_args.time_arrays[i]) # Len(pre_args.data_arrays[i])

\* the call raised RuntimeError, or returned one array of the length of
\* Ring.cycle_time for each pair, as the pairs are mismatched or not
RaisedOrInterpolatedAll ==
    IF SomePairMismatched
    THEN pre_result = PreprocessRaised("RuntimeError")
    ELSE /\ pre_result.raised = "none"
         /\ Len(pre_result.data_interp) = Len(pre_args.time_arrays)
         /\ \A i \in 1..Len(pre_result.data_interp) :
                /\ Len(pre_result.data_interp[i])
                       = Len(pre_args.Ring.cycle_time)
                /\ pre_result.data_interp[i]
                       = interpolated(pre_args.self.interpolation,
                                      pre_args.Ring.cycle_time,
                                      pre_args.time_arrays[i],
                                      pre_args.data_arrays[i]).array

\* C25: preprocess raises RuntimeError when a time array and its data array
\* have different lengths and returns nothing; otherwise it returns one
\* interpolated array for each pair, in the order of the pairs, each of
\* the length of Ring.cycle_time
C25_RaisesOnMismatchElseInterpolatesAll == CalledWithPairs => RaisedOrInterpolatedAll

\* the pair has enough points for its interpolation: one for the linear,
\* four for the cubic one
EnoughPoints(i) ==
    Len(pre_args.time_arrays[i])
        >= (IF pre_args.self.interpolation = "linear" THEN 1 ELSE 4)

\* C25 for the calls whose pairs of equal length have enough points
C25_HoldsWithEnoughPoints ==
    (/\ CalledWithPairs
     /\ \A i \in 1..Len(pre_args.time_arrays) :
            Len(pre_args.time_arrays[i]) = Len(pre_args.data_arrays[i])
                => EnoughPoints(i))
        => RaisedOrInterpolatedAll

---------------------------------------------------------------------------
(* _FrequencyOffset of llrf/offset_frequency.py.  The arrays of the        *)
(* RFStation have one row for each RF system and one column for each       *)
(* turn; the RFStation keeps harmonic, omega_rf_d, omega_rf and phi_rf in  *)
(* arrays of their own.  The frequencies are integers, the phases          *)
(* fractions <<numerator, denominator>> of a full turn of 2 pi.            *)

\* most RF systems of the station
MaxRF == 2
\* most columns of the arrays of the station: n_turns + 1
MaxColumns == 3

\* the sum and the equality of two fractions
frac_add(a, b) == <<a[1] * b[2] + b[1] * a[2], a[2] * b[2]>>
frac_eq(a, b) == a[1] * b[2] = b[1] * a[2]

\* a[:stop] for stop >= 0: the first stop entries, all when there are fewer
slice_to(a, stop) == SubSeq(a, 1, IF stop > Len(a) THEN Len(a) ELSE stop)

\* the outcome of a method: the exception, the object and the station
OffsetOutcome(exc, self, rf_station) ==
    [raised |-> exc, self |-> self, rf_station |-> rf_station]

\* _FrequencyOffset.__init__(self, Ring, RFStation)
FrequencyOffset_init(Ring, RFStation) ==
    [new_frequency |-> None, end_turn |-> None, design_frequency |-> None,
     phase_slippage |-> None]

\* the new frequency of set_frequency for an array [time, freq]: the
\* program interpolated on the turns before the first one at or after its
\* last time
interpolated_program(ring, NewFrequencyProgram) ==
    LET time == NewFrequencyProgram.value[1]
        freq == NewFrequencyProgram.value[2]
        \* np.where(cycle_time >= time[-1])[0][0], counted from 1
        position == IF time = <<>> THEN 0
                    ELSE np_where_first(ring.cycle_time, time[Len(time)],
                                        FALSE)
    IN  \* time[-1] of an empty row, and [0][0] of no turn
        IF position = 0 THEN [raised |-> "IndexError", value |-> <<>>]
        ELSE [raised |-> "none",
              value |-> [k \in 1..(position - 1) |->
                            np_interp_at(ring.cycle_time[k], time, freq)]]

\* _FrequencyOffset.set_frequency(self, NewFrequencyProgram)
set_frequency(self, ring, rf_station, NewFrequencyProgram) ==
    LET \* isinstance(NewFrequencyProgram, np.ndarray) and shape[0] == 2
        two_rows == /\ NewFrequencyProgram.kind \in {"ndarray", "ndarray2d"}
                    /\ Len(NewFrequencyProgram.value) = 2
        program == interpolated_program(ring, NewFrequencyProgram)
        new_frequency == IF two_rows THEN program.value
                         ELSE NewFrequencyProgram.value
        end_turn == Len(new_frequency)
    IN  \* NewFrequencyProgram[0][-1] when row 0 is a number
        IF two_rows /\ NewFrequencyProgram.kind = "ndarray"
        THEN OffsetOutcome("IndexError", self, rf_station)
        ELSE IF two_rows /\ program.raised # "none"
        THEN OffsetOutcome(program.raised, self, rf_station)
        \* len() of the array of a single number
        ELSE IF NewFrequencyProgram.kind = "number"
        THEN OffsetOutcome("TypeError",
                           [self EXCEPT !.new_frequency = <<new_frequency>>],
                           rf_station)
        ELSE OffsetOutcome("none",
                 [self EXCEPT
                     !.new_frequency = new_frequency,
                     !.end_turn = <<end_turn>>,
                     !.design_frequency =
                         [n \in 1..rf_station.n_rf |->
                             slice_to(rf_station.omega_rf_d[n], end_turn)]],
                 rf_station)

\* the partial sums of a list of fractions: np.cumsum
RECURSIVE frac_cumsum(_)
frac_cumsum(a) ==
    IF Len(a) <= 1 THEN a
    ELSE LET before == frac_cumsum(SubSeq(a, 1, Len(a) - 1))
         IN  Append(before, frac_add(before[Len(before)], a[Len(a)]))

\* _FrequencyOffset.calculate_phase_slip(self)
calculate_phase_slip(self, rf_station) ==
    LET end_turn == self.end_turn[1]
        harmonic == [n \in 1..rf_station.n_rf |->
                        slice_to(rf_station.harmonic[n], end_turn)]
        \* 2*pi*h*(h*new_frequency - design_frequency)/design_frequency
        delta_phi == [n \in 1..rf_station.n_rf |->
                         [k \in 1..end_turn |->
                             <<harmonic[n][k]
                                   * (harmonic[n][k] * self.new_frequency[k]
                                      - self.design_frequency[n][k]),
                               self.design_frequency[n][k]>>]]
    IN  \* more new frequencies than columns: the shapes do not match
        IF end_turn > Len(rf_station.harmonic[1])
        THEN OffsetOutcome("ValueError", self, rf_station)
        ELSE OffsetOutcome("none",
                 [self EXCEPT !.phase_slippage =
                     [n \in 1..rf_station.n_rf |-> frac_cumsum(delta_phi[n])]],
                 rf_station)

\* the two slice assignments of apply_new_frequency
applied_before_end_turn(self, rf_station) ==
    LET end_turn == self.end_turn[1]
    IN  [rf_station EXCEPT
            !.omega_rf = [n \in 1..rf_station.n_rf |->
                [k \in 1..Len(rf_station.omega_rf[n]) |->
                    IF k <= end_turn
                    THEN rf_station.harmonic[n][k] * self.new_frequency[k]
                    ELSE rf_station.omega_rf[n][k]]],
            !.phi_rf = [n \in 1..rf_station.n_rf |->
                [k \in 1..Len(rf_station.phi_rf[n]) |->
                    IF k <= end_turn
                    THEN frac_add(rf_station.phi_rf[n][k],
                                  self.phase_slippage[n][k])
                    ELSE rf_station.phi_rf[n][k]]]]

\* the loop with the slippage of the first turn in the place of the last
applied_from_end_turn_first(self, rf_station) ==
    LET end_turn == self.end_turn[1]
    IN  [rf_station EXCEPT
            !.phi_rf = [n \in 1..rf_station.n_rf |->
                [k \in 1..Len(rf_station.phi_rf[n]) |->
                    IF k > end_turn
                    THEN frac_add(rf_station.phi_rf[n][k],
                                  self.phase_slippage[n][1])
                    ELSE rf_station.phi_rf[n][k]]]]

\* the loop of apply_new_frequency: phi_rf[n, end_turn:] +=
\* phase_slippage[n, -1]
applied_from_end_turn(self, rf_station) ==
    LET end_turn == self.end_turn[1]
    IN  [rf_station EXCEPT
            !.phi_rf = [n \in 1..rf_station.n_rf |->
                [k \in 1..Len(rf_station.phi_rf[n]) |->
                    IF k > end_turn
                    THEN frac_add(rf_station.phi_rf[n][k],
                                  self.phase_slippage[n][end_turn])
                    ELSE rf_station.phi_rf[n][k]]]]

\* _FrequencyOffset.apply_new_frequency(self)
apply_new_frequency(self, rf_station) ==
    LET first == applied_before_end_turn(self, rf_station)
    IN  \* phase_slippage[n, -1] of a row of no entries
        IF self.end_turn[1] = 0 /\ rf_station.n_rf > 0
        THEN OffsetOutcome("IndexError", self, first)
        ELSE OffsetOutcome("none", self, applied_from_end_turn(self, first))

\* the RF stations: n_rf systems with a harmonic each, the design
\* frequency the harmonic times the revolution frequency of the turn, and
\* omega_rf and phi_rf as the station computes them from the design values
RFStations(columns) ==
    {[n_rf |-> n_rf,
      harmonic |-> [n \in 1..n_rf |-> [k \in 1..columns |-> h[n]]],
      omega_rf_d |-> [n \in 1..n_rf |-> [k \in 1..columns |-> h[n] * f[k]]],
      omega_rf |-> [n \in 1..n_rf |-> [k \in 1..columns |-> h[n] * f[k]]],
      phi_rf |-> [n \in 1..n_rf |-> [k \in 1..columns |-> <<p * k, 2>>]]] :
        n_rf \in 1..MaxRF, h \in [1..MaxRF -> {1, 2}],
        f \in [1..columns -> {2, 4}], p \in {0, 1}}

\* the programs: a list or an array with a frequency for each turn, an
\* array [time, freq], or a single number
FrequencyPrograms(columns, kind) ==
    IF kind \in {"list", "ndarray"}
    THEN {[kind |-> kind, value |-> v] :
             v \in UNION {[1..m -> {1, 3}] : m \in 0..(columns + 1)}}
    ELSE IF kind = "ndarray2d"
    THEN {[kind |-> kind, value |-> <<time, <<2, 4>>>>] :
             time \in {<<0, 0>>, <<0, 1>>, <<0, 2>>, <<1, 5>>}}
         \cup {[kind |-> kind, value |-> <<<<>>, <<>>>>]}
    ELSE {[kind |-> kind, value |-> 3]}

\* no caller outside _FrequencyOffset
NotOffset ==
    /\ WellIdle /\ ModIdle /\ RFIdle /\ SFDIdle
    /\ TrackerIdle /\ MovingAverageIdle /\ CombineIdle /\ PreprocessIdle

OffsetInit ==
    /\ NotOffset
    /\ warnings_filters = <<>>
    /\ \E columns \in 2..MaxColumns :
       \E RFStation \in RFStations(columns) :
       \E kind \in {"list", "ndarray", "ndarray2d", "number"} :
       \E NewFrequencyProgram \in FrequencyPrograms(columns, kind) :
           /\ fo_args = [Ring |-> [cycle_time |-> [k \in 1..columns |-> k - 1]],
                         RFStation |-> RFStation,
                         NewFrequencyProgram |-> NewFrequencyProgram]
           /\ fo_self = FrequencyOffset_init(fo_args.Ring, RFStation)
           /\ fo_station = RFStation
    /\ fo_pc = "new"
    /\ fo_raised = "none"

\* the object and the station after a method
OffsetEffect(name, r) ==
    /\ fo_pc' = name
    /\ fo_raised' = r.raised
    /\ fo_self' = r.self
    /\ fo_station' = r.rf_station
    /\ UNCHANGED <<fo_args, not_fo_vars>>

Call_set_frequency ==
    /\ fo_pc = "new"
    /\ OffsetEffect("set_frequency",
           set_frequency(fo_self, fo_args.Ring, fo_station,
                         fo_args.NewFrequencyProgram))

Call_calculate_phase_slip ==
    /\ fo_pc = "set_frequency" /\ fo_raised = "none"
    /\ OffsetEffect("calculate_phase_slip",
                    calculate_phase_slip(fo_self, fo_station))

Call_apply_new_frequency ==
    /\ fo_pc = "calculate_phase_slip" /\ fo_raised = "none"
    /\ OffsetEffect("apply_new_frequency",
                    apply_new_frequency(fo_self, fo_station))

OffsetNext ==
    \/ Call_set_frequency
    \/ Call_calculate_phase_slip
    \/ Call_apply_new_frequency

SpecOffset == OffsetInit /\ [][OffsetNext]_vars

---------------------------------------------------------------------------
(* Properties of _FrequencyOffset                                          *)

\* the station after apply_new_frequency, against the station before:
\* before end_turn omega_rf is the harmonic times the new frequency and
\* phi_rf has gained the summed slippage; from end_turn on omega_rf is as
\* it was and phi_rf has gained the last summed slippage; harmonic and
\* omega_rf_d are as they were
NewFrequencyApplied ==
    LET before == fo_args.RFStation
        end_turn == fo_self.end_turn[1]
    IN  /\ fo_pc = "apply_new_frequency" /\ fo_raised = "none"
        /\ fo_station.harmonic = before.harmonic
        /\ fo_station.omega_rf_d = before.omega_rf_d
        /\ \A n \in 1..before.n_rf : \A k \in 1..Len(before.omega_rf[n]) :
               IF k <= end_turn
               THEN /\ fo_station.omega_rf[n][k]
                           = before.harmonic[n][k] * fo_self.new_frequency[k]
                    /\ frac_eq(fo_station.phi_rf[n][k],
                               frac_add(before.phi_rf[n][k],
                                        fo_self.phase_slippage[n][k]))
               ELSE /\ fo_station.omega_rf[n][k] = before.omega_rf[n][k]
                    /\ frac_eq(fo_station.phi_rf[n][k],
                               frac_add(before.phi_rf[n][k],
                                        fo_self.phase_slippage[n][end_turn]))

\* the difference of phi_rf between the turn end_turn and the one before
\* it is as it was
PhaseDifferenceKept ==
    LET before == fo_args.RFStation
        e == fo_self.end_turn[1]
    IN  e < Len(before.phi_rf[1]) =>
            \A n \in 1..before.n_rf :
                frac_eq(frac_add(fo_station.phi_rf[n][e + 1],
                                 before.phi_rf[n][e]),
                        frac_add(before.phi_rf[n][e + 1],
                                 fo_station.phi_rf[n][e]))

C30_ProgramOfNoTurnRaises ==
    (fo_pc = "apply_new_frequency" /\ fo_self.end_turn[1] = 0) =>
        (fo_raised = "IndexError" /\ fo_station = fo_args.RFStation)

=============================================================================
